---- MODULE Spec2Model ----
(***************************************************************************)
(* Model of the scoring path of Job_Hunter_AI:                             *)
(*   - the jobs table and its update statements (src/core/database.py)     *)
(*   - GLMProcessor.process_unfiltered_jobs, the three-tier Scorer         *)
(*     (src/core/gl_processor.py)                                          *)
(*   - JobFilterService.filter_new_jobs with its PreFilter                 *)
(*     (src/core/filter.py)                                                *)
(*   - GLMClient.chat with its retry decorator (src/core/llm/glm_client.py)*)
(*   - AntigravityImporter with its two levels of deduplication            *)
(*     (src/core/importer.py), Database.insert_job, insert_job_if_new and  *)
(*     Database.transaction (src/core/database.py)                         *)
(* Every store statement that ends in conn.commit() is one step, so the    *)
(* states of the model are the committed states another reader can see.    *)
(* Scores are kept in hundredths: match_score 0.85 is the integer 85.      *)
(***************************************************************************)
EXTENDS Integers, Sequences, FiniteSets, TLC

(* ---------------------------- bounds ----------------------------------- *)

\* number of jobs in the store at the start of a run
MaxJobs == 2

\* largest batch_size argument tried
MaxBatch == 2

\* store statements that may fail with sqlite3.Error during one run
MaxStoreFaults == 1

\* calls of GLMClient.chat followed on one client
MaxChatCalls == 3

\* records read from source files, over all the files imported
MaxRecords == 3

\* stored jobs that the Scorer processes between imports
MaxScored == 1

\* direct calls of insert_job / insert_job_if_new and transaction bodies
MaxStoreCalls == 1

\* calls of process_unfiltered_jobs on one GLMProcessor object
MaxRuns == 2

JobIds == 1..MaxJobs

(* ------------------------- program constants --------------------------- *)

\* score >= 85 : Tier 1
Tier1Min == 85

\* score >= 60 : Tier 2
Tier2Min == 60

\* match_score column before any scoring (SQL NULL)
NoScore == 0 - 1

\* cost units added to total_cost by one successful chat call
CallCost == 1

(* --------------------------- input domains ----------------------------- *)

\* the postings a source file may contain: company, title, description
\* (titles and descriptions as word lists)
Postings ==
    { [company |-> "Acme", title |-> <<"machine", "learning", "engineer">>,
       jd_markdown |-> <<"remote", "python", "role">>],
      [company |-> "Acme", title |-> <<"senior", "ml", "engineer">>,
       jd_markdown |-> <<"requires", "active", "security", "clearance">>],
      [company |-> "Revature", title |-> <<"data", "analyst">>,
       jd_markdown |-> <<"remote", "python", "role">>] }

\* answers of the scoring provider: the numeric score and the tier field of
\* the JSON object; nothing forces the provider to keep the two consistent
Responses ==
    { [score |-> 85, tier |-> "high"],
      [score |-> 60, tier |-> "medium"],
      [score |-> 59, tier |-> "low"],
      [score |-> 60, tier |-> "high"] }

\* scores (in hundredths) that GLMClient.filter_job may return
FilterScores == {59, 60, 85}

(* ------------------------- string helpers ------------------------------ *)

\* str.lower() on the strings that occur in the model
Lower(s) ==
    CASE s = "Acme" -> "acme"
      [] s = "Revature" -> "revature"
      [] OTHER -> s

\* "needle in hay" for word sequences (both already split on blanks)
IsInfix(needle, hay) ==
    \E i \in 0..(Len(hay) - Len(needle)) :
        \A k \in 1..Len(needle) : hay[i + k] = needle[k]

RECURSIVE ReplacePhrases(_)
\* the replacements dict of _normalize_title, applied left to right
ReplacePhrases(ws) ==
    IF Len(ws) = 0 THEN <<>>
    ELSE IF Len(ws) >= 2 /\ ws[1] = "machine" /\ ws[2] = "learning"
         THEN <<"ml">> \o ReplacePhrases(SubSeq(ws, 3, Len(ws)))
    ELSE IF Len(ws) >= 2 /\ ws[1] = "artificial" /\ ws[2] = "intelligence"
         THEN <<"ai">> \o ReplacePhrases(SubSeq(ws, 3, Len(ws)))
    ELSE <<ws[1]>> \o ReplacePhrases(Tail(ws))

CommonWords == {"senior", "junior", "lead", "principal", "staff", "the", "a", "an"}

_normalize_title(title) ==
    SelectSeq(ReplacePhrases(title), LAMBDA w : w \notin CommonWords)

WordSet(ws) == { ws[i] : i \in 1..Len(ws) }

Min2(a, b) == IF a <= b THEN a ELSE b

_are_titles_similar(title1, title2) ==
    \/ title1 = title2
    \/ IsInfix(title1, title2)
    \/ IsInfix(title2, title1)
    \/ /\ WordSet(title1) # {}
       /\ WordSet(title2) # {}
       /\ 10 * Cardinality(WordSet(title1) \cap WordSet(title2))
             >= 8 * Min2(Cardinality(WordSet(title1)), Cardinality(WordSet(title2)))

(* ----------------------------- PreFilter ------------------------------- *)

\* preferences.blacklisted_companies, lower-cased by PreFilter.__init__
blacklisted_companies == {"revature"}

\* reject keywords in list order (user keywords first, then the defaults)
reject_keywords == << <<"security", "clearance">>, <<"no", "sponsorship">> >>

NoReason == [kind |-> "none", arg |-> <<>>]

\* PreFilter.should_reject: the reason, or NoReason when the job passes
should_reject(job) ==
    IF Lower(job.company) \in blacklisted_companies
    THEN [kind |-> "Blacklisted company", arg |-> <<job.company>>]
    ELSE IF \E i \in 1..Len(reject_keywords) : IsInfix(reject_keywords[i], job.jd_markdown)
    THEN LET i == CHOOSE i \in 1..Len(reject_keywords) :
                    /\ IsInfix(reject_keywords[i], job.jd_markdown)
                    /\ \A k \in 1..(i - 1) : ~IsInfix(reject_keywords[k], job.jd_markdown)
         IN [kind |-> "Reject keyword found", arg |-> reject_keywords[i]]
    ELSE NoReason

(* ------------------------------ the store ------------------------------ *)

NoReasoning == [kind |-> "none", ref |-> 0, reason |-> NoReason]

\* a row as insert_job leaves it for a freshly imported record
NewJob(p) ==
    [ company |-> p.company, title |-> p.title, jd_markdown |-> p.jd_markdown,
      status |-> "new", decision_type |-> "null",
      match_score |-> NoScore, match_reasoning |-> NoReasoning,
      red_flags |-> <<>>, is_processed |-> FALSE,
      filtered_at |-> FALSE, decided_at |-> FALSE, applied_at |-> FALSE ]

\* update_job_status with decided_at written for every target status
update_job_status_decided(row, status, decision_type) ==
    [row EXCEPT !.status = status, !.decision_type = decision_type,
                !.decided_at = TRUE]

\* Database.update_job_status applied to one row
update_job_status(row, status, decision_type) ==
    LET r == [row EXCEPT !.status = status, !.decision_type = decision_type]
    IN IF status = "filtered" THEN [r EXCEPT !.filtered_at = TRUE]
       ELSE IF status \in {"approved", "rejected", "skipped"} THEN [r EXCEPT !.decided_at = TRUE]
       ELSE IF status = "applied" THEN [r EXCEPT !.applied_at = TRUE]
       ELSE r

\* Database.update_job_filter_results applied to one row
update_job_filter_results(row, score, reasoning, red_flags) ==
    [row EXCEPT !.match_score = score,
                !.match_reasoning = reasoning,
                !.red_flags = red_flags,
                !.filtered_at = TRUE,
                !.status = "filtered"]

\* UPDATE jobs SET is_processed = NOT is_processed WHERE id = ?
mark_processed_toggle(row) == [row EXCEPT !.is_processed = ~@]

\* UPDATE jobs SET is_processed = 1 WHERE id = ?
mark_processed(row) == [row EXCEPT !.is_processed = TRUE]

(* --------------------- GLMProcessor: pure parts ------------------------- *)

\* ProcessorStats()
ProcessorStats ==
    [ total_processed |-> 0, tier1_high_match |-> 0, tier2_medium_match |-> 0,
      tier3_low_match |-> 0, resumes_generated |-> 0,
      semantic_duplicates_found |-> 0, errors |-> 0, cost_usd |-> 0 ]

\* the (status, decision_type) chosen by _update_job_with_score
ScoreStatus(score) ==
    IF score >= Tier1Min THEN [status |-> "matched", decision_type |-> "auto"]
    ELSE IF score >= Tier2Min THEN [status |-> "matched", decision_type |-> "manual"]
    ELSE [status |-> "rejected", decision_type |-> "null"]

\* the tier counter _process_single_job increments, from the values that
\* _score_job_with_glm returned
TierCounter(score, tier) ==
    IF tier = "high" THEN "tier1_high_match"
    ELSE IF tier = "medium" THEN "tier2_medium_match"
    ELSE "tier3_low_match"

\* the condition under which _process_single_job calls _generate_resume_for_tier1
WantsResume(score, tier, enable_tier1_resume) ==
    tier = "high" /\ enable_tier1_resume

\* duplicate branch mutated: the total is not advanced
CountDuplicateNoTotal(st) ==
    [st EXCEPT !.semantic_duplicates_found = @ + 1]

\* the two counters advanced in the duplicate branch of _process_single_job
CountDuplicate(st) ==
    [st EXCEPT !.semantic_duplicates_found = @ + 1, !.total_processed = @ + 1]

\* except-clause mutated: the failure is swallowed without being counted
CountErrorSwallowed(st) == st

\* the except clause of _process_single_job
CountError(st) == [st EXCEPT !.errors = @ + 1]

\* rows that _check_semantic_duplicate's SELECT returns for job j
SameCompanyRows(store, j) ==
    { e \in DOMAIN store : /\ e # j
                           /\ store[e].company = store[j].company
                           /\ store[e].status # "rejected" }

\* rows among them whose normalized title is similar to j's
SimilarRows(store, j) ==
    { e \in SameCompanyRows(store, j) :
        _are_titles_similar(_normalize_title(store[j].title),
                            _normalize_title(store[e].title)) }

RECURSIVE DescendingIds(_)
\* ids of a set, newest (largest scraped_at, here largest id) first
DescendingIds(S) ==
    IF S = {} THEN <<>>
    ELSE LET m == CHOOSE x \in S : \A y \in S : y <= x
         IN <<m>> \o DescendingIds(S \ {m})

\* variant of the selection without the is_processed = 0 condition
_get_all_jobs(store, limit) ==
    LET all == DescendingIds(DOMAIN store)
    IN IF limit # 0 /\ limit < Len(all) THEN SubSeq(all, 1, limit) ELSE all

\* GLMProcessor._get_unprocessed_jobs; limit 0 stands for None
_get_unprocessed_jobs(store, limit) ==
    LET all == DescendingIds({ j \in DOMAIN store : ~store[j].is_processed })
    IN IF limit # 0 /\ limit < Len(all) THEN SubSeq(all, 1, limit) ELSE all

(* ------------------------- importer: pure parts ------------------------- *)

\* str.lower() on a string given as its sequence of characters
StrLower(s) ==
    [k \in 1..Len(s) |->
        CASE s[k] = "A" -> "a"
          [] s[k] = "B" -> "b"
          [] s[k] = "C" -> "c"
          [] s[k] = "D" -> "d"
          [] OTHER -> s[k]]

RECURSIVE LStrip(_)
LStrip(s) == IF Len(s) > 0 /\ s[1] = " " THEN LStrip(Tail(s)) ELSE s

RECURSIVE RStrip(_)
RStrip(s) ==
    IF Len(s) > 0 /\ s[Len(s)] = " " THEN RStrip(SubSeq(s, 1, Len(s) - 1)) ELSE s

\* str.strip()
StrStrip(s) == RStrip(LStrip(s))

\* hashlib.md5(...).hexdigest(): a digest, taken to be free of collisions
Md5(s) == << "md5", s >>

\* a fuzzy hash with a separator between company and title
generate_fuzzy_hash_separated(company, title) ==
    Md5(StrStrip(StrLower(company)) \o <<"|">> \o StrStrip(StrLower(title)))

\* generate_fuzzy_hash(company, title)
generate_fuzzy_hash(company, title) ==
    Md5(StrStrip(StrLower(company)) \o StrStrip(StrLower(title)))

\* determine_source_priority(source)
determine_source_priority(source) ==
    IF source \in {"greenhouse", "lever", "ashby", "workable", "indeed", "wellfound"} THEN 1
    ELSE IF source \in {"linkedin", "glassdoor"} THEN 2
    ELSE 3

\* the sources of the files that are imported (detected from the file name)
Sources == {"indeed", "linkedin"}

\* None
Null == "null"

\* the records a source file may hold; url "" stands for a record without
\* url, description <<>> for one without description
RawRecords ==
    { [url |-> "u1", company |-> <<"A", "b">>, title |-> <<"c", "d">>,
       description |-> <<"w">>, location |-> "Berlin", external_id |-> "e1"],
      [url |-> "u2", company |-> <<" ", "a", "b">>, title |-> <<"C", "D">>,
       description |-> <<"v", "v">>, location |-> "Remote", external_id |-> Null],
      [url |-> "u2", company |-> <<"x">>, title |-> <<"y">>,
       description |-> <<>>, location |-> Null, external_id |-> Null],
      [url |-> "u3", company |-> <<"x">>, title |-> <<"z">>,
       description |-> <<"w">>, location |-> Null, external_id |-> "e1"],
      [url |-> "", company |-> <<"x">>, title |-> <<"z">>,
       description |-> <<"w">>, location |-> Null, external_id |-> Null] }

\* _normalize_job_data(job_raw, source) for a record that has a url
_normalize_job_data(job_raw, source) ==
    [ platform |-> source, url |-> job_raw.url,
      fuzzy_hash |-> generate_fuzzy_hash(job_raw.company, job_raw.title),
      external_id |-> job_raw.external_id,
      title |-> job_raw.title, company |-> job_raw.company,
      location |-> job_raw.location,
      jd_markdown |-> job_raw.description, jd_raw |-> job_raw.description,
      source |-> source, source_priority |-> determine_source_priority(source),
      is_processed |-> FALSE, status |-> "new" ]

\* the row that insert_job writes for job_data
InsertedRow(job_data) ==
    [ external_id |-> job_data.external_id, url_hash |-> Md5(job_data.url),
      fuzzy_hash |-> job_data.fuzzy_hash, platform |-> job_data.platform,
      url |-> job_data.url, title |-> job_data.title, company |-> job_data.company,
      location |-> job_data.location,
      jd_markdown |-> job_data.jd_markdown, jd_raw |-> job_data.jd_raw,
      match_score |-> NoScore, match_reasoning |-> NoReasoning, red_flags |-> <<>>,
      status |-> job_data.status, decision_type |-> Null,
      source |-> job_data.source, source_priority |-> job_data.source_priority,
      is_processed |-> job_data.is_processed,
      filtered_at |-> FALSE, decided_at |-> FALSE, applied_at |-> FALSE ]

\* UNIQUE(url_hash): some row already has this url_hash
UrlHashTaken(table, row) ==
    \E k \in 1..Len(table) : table[k].url_hash = row.url_hash

\* UNIQUE(platform, external_id): NULL external ids never collide
ExternalIdTaken(table, row) ==
    /\ row.external_id # Null
    /\ \E k \in 1..Len(table) :
          table[k].platform = row.platform /\ table[k].external_id = row.external_id

\* variant of the constraints without UNIQUE(platform, external_id)
IntegrityErrorUrlOnly(table, row) == UrlHashTaken(table, row)

\* the INSERT of insert_job raises sqlite3.IntegrityError
IntegrityError(table, row) == UrlHashTaken(table, row) \/ ExternalIdTaken(table, row)

\* variant of the url lookup that never finds a row
_get_job_by_url_hash_none(table, url_hash) == 0

\* SELECT * FROM jobs WHERE url_hash = ?  (fetchone): the row id, 0 if none
_get_job_by_url_hash(table, url_hash) ==
    IF \E k \in 1..Len(table) : table[k].url_hash = url_hash
    THEN CHOOSE k \in 1..Len(table) :
            /\ table[k].url_hash = url_hash
            /\ \A m \in 1..(k - 1) : table[m].url_hash # url_hash
    ELSE 0

\* a fuzzy lookup that finds nothing
_get_job_by_fuzzy_hash_none(table, fuzzy_hash) == 0

\* SELECT * FROM jobs WHERE fuzzy_hash = ?  (fetchone): the row id, 0 if none
_get_job_by_fuzzy_hash(table, fuzzy_hash) ==
    IF \E k \in 1..Len(table) : table[k].fuzzy_hash = fuzzy_hash
    THEN CHOOSE k \in 1..Len(table) :
            /\ table[k].fuzzy_hash = fuzzy_hash
            /\ \A m \in 1..(k - 1) : table[m].fuzzy_hash # fuzzy_hash
    ELSE 0

\* resolve_duplicate(existing_job, new_job): the action and the update data
\* it returns.  The new description is read from the key 'description' of
\* new_job and is '' when new_job has no such key.
resolve_duplicate(existing_job, new_job) ==
    LET new_desc == IF "description" \in DOMAIN new_job
                    THEN new_job.description ELSE <<>>
    IN IF new_job.source_priority < existing_job.source_priority
       THEN [action |-> "update_full", jd_raw |-> new_job.jd_raw]
       ELSE IF new_job.source_priority = existing_job.source_priority
       THEN IF Len(new_desc) > Len(existing_job.jd_raw)
            THEN [action |-> "update_description", jd_raw |-> new_desc]
            ELSE [action |-> "skip", jd_raw |-> <<>>]
       ELSE [action |-> "skip", jd_raw |-> <<>>]

\* variant of the full update that writes the row anew, as an insert would
_replace_row(row, job_data) == InsertedRow(job_data)

\* AntigravityImporter._update_job: the UPDATE statement applied to one row
_update_job(row, job_data) ==
    [row EXCEPT !.title = job_data.title, !.company = job_data.company,
                !.location = job_data.location,
                !.jd_markdown = job_data.jd_markdown, !.jd_raw = job_data.jd_raw,
                !.source = job_data.source,
                !.source_priority = job_data.source_priority,
                !.url = job_data.url, !.fuzzy_hash = job_data.fuzzy_hash]

\* AntigravityImporter._update_job_description applied to one row
_update_job_description(row, new_desc) ==
    [row EXCEPT !.jd_markdown = new_desc, !.jd_raw = new_desc]

(* ------------------------------- state --------------------------------- *)

VARIABLES
    jobs,              \* the jobs table: id -> row (committed state)
    glm_total_cost,    \* total_cost of the filter client (self.glm)
    glm_calls,         \* jobs for which the filter client was called
    store_faults,      \* store statements that have failed so far
    phase,             \* process_unfiltered_jobs: "idle", "running", "done"
    args,              \* arguments of process_unfiltered_jobs
    unprocessed_jobs,  \* the list materialized at the start of the run
    i,                 \* loop variable of the window loop (0-based offset)
    pc,                \* position of each job's _process_single_job task
    cur,               \* the task that holds the event loop between two awaits, 0 if none
    resp,              \* locals of a task: result of the duplicate check / of the scoring
    stats,             \* the shared ProcessorStats object
    claude_total_cost, \* total_cost of the tailor client (self.claude)
    tailor_calls,      \* jobs for which tailor.tailor_resume_for_job was awaited
    outcome,           \* how each task ended: "none", "scored", "duplicate", "error"
    runs,              \* calls of process_unfiltered_jobs made on this processor
    writers,           \* two calls of _update_job_with_score from other processes
    frun,              \* filter_new_jobs: phase, job list, loop index, position, score
    fstats,            \* the FilterStats object of filter_new_jobs
    chat,              \* GLMClient.chat: position, attempt number, exception raised
    chat_log,          \* how each attempt of the current chat call ended
    db_jobs,           \* the jobs table as the importer's connection sees it (row id = index)
    db_committed,      \* the jobs table as of the last conn.commit()
    imp,               \* import_json_file: phase and source of the file
    imp_stats,         \* AntigravityImporter.stats
    store_call,        \* direct calls of the Database API: how many, what the last returned or raised
    tx,                \* Database.transaction(): active, table at entry
    replay,            \* the (record, source) sequence a caller imports twice, and the pass
    multi              \* import_multiple_files: phase, file_paths, loop index

storeVars == << jobs, glm_total_cost, glm_calls, store_faults >>

scorerVars == << phase, args, unprocessed_jobs, i, pc, cur, resp, stats,
                 claude_total_cost, tailor_calls, outcome, runs, writers >>

filterVars == << frun, fstats >>

clientVars == << chat, chat_log >>

importVars == << db_jobs, db_committed, imp, imp_stats, store_call, tx, replay, multi >>

vars == << storeVars, scorerVars, filterVars, clientVars, importVars >>

\* the two writers, and a writer that has not been called
Writers == {1, 2}

NoWriter == [pc |-> "idle", job_id |-> 0, score |-> NoScore]

NoArgs == [batch_size |-> 0, limit |-> 0,
           enable_semantic_dedup |-> FALSE, enable_tier1_resume |-> FALSE]

NoResp == [score |-> NoScore, tier |-> "none", similar |-> 0]

\* FilterStats()
FilterStats ==
    [ total |-> 0, high_match |-> 0, medium_match |-> 0, rejected |-> 0,
      pre_filtered |-> 0, errors |-> 0, cost_usd |-> 0 ]

NoChat == [pc |-> "idle", calls |-> 0, attempt_number |-> 0, raised |-> "none"]

NoImport == [phase |-> "idle", source |-> Null]

SourceStats == [total |-> 0, new |-> 0, url_dup |-> 0, fuzzy_dup_skip |-> 0,
                fuzzy_dup_update |-> 0]

\* AntigravityImporter.__init__: self.stats
ImportStats ==
    [ total_jobs |-> 0, new_jobs |-> 0, url_duplicates |-> 0,
      fuzzy_duplicates_skipped |-> 0, fuzzy_duplicates_updated |-> 0,
      by_source |-> [src \in Sources |-> SourceStats] ]

NoStoreCall == [calls |-> 0, result |-> "none"]

NoTx == [active |-> FALSE, begin |-> <<>>]

NoReplay == [seq |-> <<>>, pass |-> 0]

NoMulti == [phase |-> "idle", file_paths |-> <<>>, k |-> 0]

NoFilterRun == [phase |-> "idle", jobs |-> <<>>, k |-> 0, pc |-> "none", score |-> NoScore]

\* the objects of a process after their construction
InitProcess ==
    /\ glm_total_cost = 0
    /\ glm_calls = {}
    /\ store_faults = 0
    /\ phase = "idle"
    /\ args = NoArgs
    /\ unprocessed_jobs = <<>>
    /\ i = 0
    /\ pc = [j \in JobIds |-> "none"]
    /\ cur = 0
    /\ resp = [j \in JobIds |-> NoResp]
    /\ stats = ProcessorStats
    /\ claude_total_cost = 0
    /\ tailor_calls = {}
    /\ outcome = [j \in JobIds |-> "none"]
    /\ runs = 0
    /\ writers = [w \in Writers |-> NoWriter]
    /\ frun = NoFilterRun
    /\ fstats = FilterStats
    /\ chat = NoChat
    /\ chat_log = <<>>
    /\ db_jobs = <<>>
    /\ db_committed = <<>>
    /\ imp = NoImport
    /\ imp_stats = ImportStats
    /\ store_call = NoStoreCall
    /\ tx = NoTx
    /\ replay = NoReplay
    /\ multi = NoMulti

\* the store after an import: only freshly imported rows; no run has started
Init ==
    /\ jobs \in [JobIds -> { NewJob(p) : p \in Postings }]
    /\ InitProcess

\* jobs of the window that starts at offset i
Window == { unprocessed_jobs[k] :
              k \in (i + 1)..Min2(i + args.batch_size, Len(unprocessed_jobs)) }

Position(j) == CHOOSE k \in 1..Len(unprocessed_jobs) : unprocessed_jobs[k] = j

Selected == { unprocessed_jobs[k] : k \in 1..Len(unprocessed_jobs) }

(* ------------------ GLMProcessor.process_unfiltered_jobs ---------------- *)

\* entry of process_unfiltered_jobs up to the first window
Start(batch_size, limit, dedup, resume) ==
    /\ phase = "idle"
    /\ frun.phase = "idle"
    /\ LET sel == _get_unprocessed_jobs(jobs, limit)
       IN /\ unprocessed_jobs' = sel
          /\ phase' = IF Len(sel) = 0 THEN "done" ELSE "running"
          /\ pc' = [j \in JobIds |->
                      IF \E k \in 1..Len(sel) : sel[k] = j THEN "ready" ELSE "none"]
    /\ args' = [batch_size |-> batch_size, limit |-> limit,
                enable_semantic_dedup |-> dedup, enable_tier1_resume |-> resume]
    /\ stats' = ProcessorStats
    /\ i' = 0
    /\ runs' = 1
    /\ UNCHANGED << storeVars, filterVars, clientVars, importVars, cur, resp, claude_total_cost,
                    tailor_calls, outcome, writers >>

\* a task of the current window runs from its start to its first await:
\* the semantic duplicate check, then either the duplicate branch or glm.chat
BeginTask(j) ==
    /\ phase = "running"
    /\ cur = 0
    /\ j \in Window
    /\ pc[j] = "ready"
    /\ \A e \in Window : Position(e) < Position(j) => pc[e] # "ready"
    /\ IF args.enable_semantic_dedup /\ SimilarRows(jobs, j) # {}
       THEN \E e \in SimilarRows(jobs, j) :
               /\ resp' = [resp EXCEPT ![j].similar = e]
               /\ pc' = [pc EXCEPT ![j] = "dup_status"]
               /\ cur' = j
               /\ UNCHANGED glm_calls
       ELSE /\ pc' = [pc EXCEPT ![j] = "wait_glm"]
            /\ glm_calls' = glm_calls \cup {j}
            /\ UNCHANGED << resp, cur >>
    /\ UNCHANGED << jobs, glm_total_cost, store_faults, filterVars, clientVars, importVars, phase, args,
                    unprocessed_jobs, runs, writers, i, stats, claude_total_cost, tailor_calls, outcome >>

\* _mark_as_duplicate, first commit: update_job_status(job_id, "rejected", None)
DupStatus(j) ==
    /\ cur = j
    /\ pc[j] = "dup_status"
    /\ jobs' = [jobs EXCEPT ![j] = update_job_status(@, "rejected", "null")]
    /\ pc' = [pc EXCEPT ![j] = "dup_results"]
    /\ UNCHANGED << glm_total_cost, glm_calls, store_faults, filterVars, clientVars, importVars, phase, args,
                    unprocessed_jobs, runs, writers, i, cur, resp, stats, claude_total_cost,
                    tailor_calls, outcome >>

\* _mark_as_duplicate, second commit: update_job_filter_results(score=0.0, ...)
DupResults(j) ==
    /\ cur = j
    /\ pc[j] = "dup_results"
    /\ jobs' = [jobs EXCEPT ![j] =
                  update_job_filter_results(@, 0,
                      [kind |-> "Semantic duplicate of job #", ref |-> resp[j].similar,
                       reason |-> NoReason],
                      <<"Duplicate job posting">>)]
    /\ pc' = [pc EXCEPT ![j] = "dup_processed"]
    /\ UNCHANGED << glm_total_cost, glm_calls, store_faults, filterVars, clientVars, importVars, phase, args,
                    unprocessed_jobs, runs, writers, i, cur, resp, stats, claude_total_cost,
                    tailor_calls, outcome >>

\* _mark_as_duplicate, third commit (is_processed = 1), then the counters and return
DupProcessed(j) ==
    /\ cur = j
    /\ pc[j] = "dup_processed"
    /\ jobs' = [jobs EXCEPT ![j] = mark_processed(@)]
    /\ stats' = CountDuplicate(stats)
    /\ pc' = [pc EXCEPT ![j] = "done"]
    /\ outcome' = [outcome EXCEPT ![j] = "duplicate"]
    /\ resp' = [resp EXCEPT ![j] = NoResp]
    /\ cur' = 0
    /\ UNCHANGED << glm_total_cost, glm_calls, store_faults, filterVars, clientVars, importVars, phase, args,
                    unprocessed_jobs, runs, writers, i, claude_total_cost, tailor_calls >>

\* glm.chat returned and parse_json_response succeeded: (score, reasoning, tier)
GlmOk(j, r) ==
    /\ cur = 0
    /\ pc[j] = "wait_glm"
    /\ glm_total_cost' = glm_total_cost + CallCost
    /\ resp' = [resp EXCEPT ![j].score = r.score, ![j].tier = r.tier]
    /\ pc' = [pc EXCEPT ![j] = "upd_results"]
    /\ cur' = j
    /\ UNCHANGED << jobs, glm_calls, store_faults, filterVars, clientVars, importVars, phase, args,
                    unprocessed_jobs, runs, writers, i, stats, claude_total_cost, tailor_calls, outcome >>

\* variant of the parse failure in which the except clause also marks the
\* job as processed
GlmInvalidMarksProcessed(j) ==
    /\ cur = 0
    /\ pc[j] = "wait_glm"
    /\ glm_total_cost' = glm_total_cost + CallCost
    /\ jobs' = [jobs EXCEPT ![j] = mark_processed(@)]
    /\ stats' = CountError(stats)
    /\ pc' = [pc EXCEPT ![j] = "done"]
    /\ outcome' = [outcome EXCEPT ![j] = "error"]
    /\ UNCHANGED << glm_calls, store_faults, filterVars, clientVars, importVars, phase, args,
                    unprocessed_jobs, runs, writers, i, cur, resp, claude_total_cost, tailor_calls >>

\* glm.chat returned content from which no JSON can be parsed:
\* InvalidResponseError reaches the except clause
GlmInvalid(j) ==
    /\ cur = 0
    /\ pc[j] = "wait_glm"
    /\ glm_total_cost' = glm_total_cost + CallCost
    /\ stats' = CountError(stats)
    /\ pc' = [pc EXCEPT ![j] = "done"]
    /\ outcome' = [outcome EXCEPT ![j] = "error"]
    /\ UNCHANGED << jobs, glm_calls, store_faults, filterVars, clientVars, importVars, phase, args,
                    unprocessed_jobs, runs, writers, i, cur, resp, claude_total_cost, tailor_calls >>

\* glm.chat raised (APIError, or RateLimitError after the last attempt)
GlmError(j) ==
    /\ cur = 0
    /\ pc[j] = "wait_glm"
    /\ stats' = CountError(stats)
    /\ pc' = [pc EXCEPT ![j] = "done"]
    /\ outcome' = [outcome EXCEPT ![j] = "error"]
    /\ UNCHANGED << storeVars, filterVars, clientVars, importVars, phase, args,
                    unprocessed_jobs, runs, writers, i, cur, resp, claude_total_cost, tailor_calls >>

\* _update_job_with_score, first commit: update_job_filter_results(score / 100.0, ...)
UpdResults(j) ==
    /\ cur = j
    /\ pc[j] = "upd_results"
    /\ jobs' = [jobs EXCEPT ![j] =
                  update_job_filter_results(@, resp[j].score,
                      [kind |-> "llm", ref |-> 0, reason |-> NoReason], <<>>)]
    /\ pc' = [pc EXCEPT ![j] = "upd_status"]
    /\ UNCHANGED << glm_total_cost, glm_calls, store_faults, filterVars, clientVars, importVars, phase, args,
                    unprocessed_jobs, runs, writers, i, cur, resp, stats, claude_total_cost,
                    tailor_calls, outcome >>

\* _update_job_with_score, second commit: update_job_status(job_id, status, decision_type)
UpdStatus(j) ==
    /\ cur = j
    /\ pc[j] = "upd_status"
    /\ jobs' = [jobs EXCEPT ![j] =
                  update_job_status(@, ScoreStatus(resp[j].score).status,
                                       ScoreStatus(resp[j].score).decision_type)]
    /\ pc' = [pc EXCEPT ![j] = "upd_processed"]
    /\ UNCHANGED << glm_total_cost, glm_calls, store_faults, filterVars, clientVars, importVars, phase, args,
                    unprocessed_jobs, runs, writers, i, cur, resp, stats, claude_total_cost,
                    tailor_calls, outcome >>

\* _update_job_with_score, third commit (is_processed = 1), then the tier
\* branch of _process_single_job up to its next await or its return
UpdProcessed(j) ==
    /\ cur = j
    /\ pc[j] = "upd_processed"
    /\ jobs' = [jobs EXCEPT ![j] = mark_processed(@)]
    /\ cur' = 0
    /\ resp' = [resp EXCEPT ![j] = NoResp]
    /\ LET counter == TierCounter(resp[j].score, resp[j].tier)
           counted == [stats EXCEPT ![counter] = @ + 1]
       IN IF WantsResume(resp[j].score, resp[j].tier, args.enable_tier1_resume)
          THEN /\ stats' = counted
               /\ pc' = [pc EXCEPT ![j] = "wait_tailor"]
               /\ tailor_calls' = tailor_calls \cup {j}
               /\ UNCHANGED outcome
          ELSE /\ stats' = [counted EXCEPT !.total_processed = @ + 1]
               /\ pc' = [pc EXCEPT ![j] = "done"]
               /\ outcome' = [outcome EXCEPT ![j] = "scored"]
               /\ UNCHANGED tailor_calls
    /\ UNCHANGED << glm_total_cost, glm_calls, store_faults, filterVars, clientVars, importVars, phase, args,
                    unprocessed_jobs, runs, writers, i, claude_total_cost >>

\* a store statement of the running task raises (sqlite3.Error): nothing is
\* committed by it and the exception reaches the except clause
StoreError(j) ==
    /\ cur = j
    /\ pc[j] \in {"dup_status", "dup_results", "dup_processed",
                  "upd_results", "upd_status", "upd_processed"}
    /\ store_faults < MaxStoreFaults
    /\ store_faults' = store_faults + 1
    /\ stats' = CountError(stats)
    /\ pc' = [pc EXCEPT ![j] = "done"]
    /\ outcome' = [outcome EXCEPT ![j] = "error"]
    /\ resp' = [resp EXCEPT ![j] = NoResp]
    /\ cur' = 0
    /\ UNCHANGED << jobs, glm_total_cost, glm_calls, filterVars, clientVars, importVars, phase, args,
                    unprocessed_jobs, runs, writers, i, claude_total_cost, tailor_calls >>

\* _generate_resume_for_tier1: the tailor returned a result; the job is set to
\* matched/auto and True is returned
TailorOk(j) ==
    /\ cur = 0
    /\ pc[j] = "wait_tailor"
    /\ claude_total_cost' = claude_total_cost + CallCost
    /\ jobs' = [jobs EXCEPT ![j] = update_job_status(@, "matched", "auto")]
    /\ stats' = [stats EXCEPT !.resumes_generated = @ + 1, !.total_processed = @ + 1]
    /\ pc' = [pc EXCEPT ![j] = "done"]
    /\ outcome' = [outcome EXCEPT ![j] = "scored"]
    /\ UNCHANGED << glm_total_cost, glm_calls, store_faults, filterVars, clientVars, importVars, phase, args,
                    unprocessed_jobs, runs, writers, i, cur, resp, tailor_calls >>

\* variant of the failed resume generation that ends the task without
\* advancing total_processed
TailorFailUncounted(j, charged) ==
    /\ cur = 0
    /\ pc[j] = "wait_tailor"
    /\ claude_total_cost' = claude_total_cost + (IF charged THEN CallCost ELSE 0)
    /\ pc' = [pc EXCEPT ![j] = "done"]
    /\ outcome' = [outcome EXCEPT ![j] = "scored"]
    /\ UNCHANGED << storeVars, filterVars, clientVars, importVars, phase, args,
                    unprocessed_jobs, runs, writers, i, cur, resp, stats, tailor_calls >>

\* _generate_resume_for_tier1: the tailor (or the status update after it)
\* raised; the exception is logged and False is returned.  charged tells
\* whether the tailor's provider call had completed before the failure.
TailorFail(j, charged) ==
    /\ cur = 0
    /\ pc[j] = "wait_tailor"
    /\ claude_total_cost' = claude_total_cost + (IF charged THEN CallCost ELSE 0)
    /\ stats' = [stats EXCEPT !.total_processed = @ + 1]
    /\ pc' = [pc EXCEPT ![j] = "done"]
    /\ outcome' = [outcome EXCEPT ![j] = "scored"]
    /\ UNCHANGED << storeVars, filterVars, clientVars, importVars, phase, args,
                    unprocessed_jobs, runs, writers, i, cur, resp, tailor_calls >>

\* variant of the window loop that does not wait for asyncio.gather
NextWindowNoBarrier ==
    /\ phase = "running"
    /\ cur = 0
    /\ \A j \in Window : pc[j] # "ready"
    /\ i + args.batch_size < Len(unprocessed_jobs)
    /\ i' = i + args.batch_size
    /\ UNCHANGED << storeVars, filterVars, clientVars, importVars, phase, args, unprocessed_jobs, runs, writers, pc, cur,
                    resp, stats, claude_total_cost, tailor_calls, outcome >>

\* asyncio.gather returned for a window that is not the last: sleep, next window
NextWindow ==
    /\ phase = "running"
    /\ cur = 0
    /\ \A j \in Window : pc[j] = "done"
    /\ i + args.batch_size < Len(unprocessed_jobs)
    /\ i' = i + args.batch_size
    /\ UNCHANGED << storeVars, filterVars, clientVars, importVars, phase, args, unprocessed_jobs, runs, writers, pc, cur,
                    resp, stats, claude_total_cost, tailor_calls, outcome >>

\* asyncio.gather returned for the last window: cost_usd is set, stats returned
Finish ==
    /\ phase = "running"
    /\ cur = 0
    /\ \A j \in Window : pc[j] = "done"
    /\ ~(i + args.batch_size < Len(unprocessed_jobs))
    /\ stats' = [stats EXCEPT !.cost_usd = glm_total_cost + claude_total_cost]
    /\ phase' = "done"
    /\ UNCHANGED << storeVars, filterVars, clientVars, importVars, args, unprocessed_jobs, runs, writers, i, pc, cur,
                    resp, claude_total_cost, tailor_calls, outcome >>

Next ==
    \/ \E b \in {1, MaxBatch}, l \in 0..1, d \in BOOLEAN, r \in BOOLEAN : Start(b, l, d, r)
    \/ \E j \in JobIds : BeginTask(j)
    \/ \E j \in JobIds : DupStatus(j)
    \/ \E j \in JobIds : DupResults(j)
    \/ \E j \in JobIds : DupProcessed(j)
    \/ \E j \in JobIds, r \in Responses : GlmOk(j, r)
    \/ \E j \in JobIds : GlmInvalid(j)
    \/ \E j \in JobIds : GlmError(j)
    \/ \E j \in JobIds : UpdResults(j)
    \/ \E j \in JobIds : UpdStatus(j)
    \/ \E j \in JobIds : UpdProcessed(j)
    \/ \E j \in JobIds : StoreError(j)
    \/ \E j \in JobIds : TailorOk(j)
    \/ \E j \in JobIds, c \in BOOLEAN : TailorFail(j, c)
    \/ NextWindow
    \/ Finish

Spec == Init /\ [][Next]_vars

\* the asyncio task that runs process_unfiltered_jobs is cancelled while it is
\* suspended in asyncio.gather: gather cancels the tasks of the window that
\* have not finished, CancelledError is raised inside each of them at its
\* await (it is no Exception, so the except clause of _process_single_job does
\* not see it) and then leaves process_unfiltered_jobs, which has no handler
\* for it and returns no stats.  Tasks of the window that had not begun to run
\* are dropped.
Cancel ==
    /\ phase = "running"
    /\ cur = 0
    /\ phase' = "cancelled"
    /\ pc' = [j \in JobIds |->
                IF j \in Window /\ pc[j] \in {"wait_glm", "wait_tailor"} THEN "aborted"
                ELSE IF pc[j] = "ready" THEN "dropped"
                ELSE pc[j]]
    /\ UNCHANGED << storeVars, filterVars, clientVars, importVars, args, unprocessed_jobs, runs, writers,
                    i, cur, resp, stats, claude_total_cost, tailor_calls, outcome >>

NextCancel ==
    \/ Next
    \/ Cancel

SpecCancel == Init /\ [][NextCancel]_vars

\* process_unfiltered_jobs is called again on the same GLMProcessor after the
\* previous call has returned: a new ProcessorStats, a new selection, the same
\* clients and the same store
Restart(batch_size, limit, dedup, resume) ==
    /\ phase = "done"
    /\ frun.phase = "idle"
    /\ runs < MaxRuns
    /\ LET sel == _get_unprocessed_jobs(jobs, limit)
       IN /\ unprocessed_jobs' = sel
          /\ phase' = IF Len(sel) = 0 THEN "done" ELSE "running"
          /\ pc' = [j \in JobIds |->
                      IF \E k \in 1..Len(sel) : sel[k] = j THEN "ready" ELSE "none"]
    /\ args' = [batch_size |-> batch_size, limit |-> limit,
                enable_semantic_dedup |-> dedup, enable_tier1_resume |-> resume]
    /\ stats' = ProcessorStats
    /\ i' = 0
    /\ runs' = runs + 1
    /\ glm_calls' = {}
    /\ tailor_calls' = {}
    /\ outcome' = [j \in JobIds |-> "none"]
    /\ UNCHANGED << jobs, glm_total_cost, store_faults, filterVars, clientVars, importVars,
                    cur, resp, claude_total_cost, writers >>

\* answers of the scoring provider followed over several runs: a Tier 1 and a
\* Tier 3 answer
RerunResponses ==
    { [score |-> 85, tier |-> "high"], [score |-> 59, tier |-> "low"] }

\* the calls followed over several runs: batch_size 1 (one task at a time),
\* with or without a limit of one job, with or without the duplicate check,
\* resumes on
NextRerun ==
    \/ \E l \in 0..1, d \in BOOLEAN : Start(1, l, d, TRUE)
    \/ \E l \in 0..1, d \in BOOLEAN : Restart(1, l, d, TRUE)
    \/ \E j \in JobIds : BeginTask(j)
    \/ \E j \in JobIds : DupStatus(j)
    \/ \E j \in JobIds : DupResults(j)
    \/ \E j \in JobIds : DupProcessed(j)
    \/ \E j \in JobIds, r \in RerunResponses : GlmOk(j, r)
    \/ \E j \in JobIds : GlmInvalid(j)
    \/ \E j \in JobIds : GlmError(j)
    \/ \E j \in JobIds : UpdResults(j)
    \/ \E j \in JobIds : UpdStatus(j)
    \/ \E j \in JobIds : UpdProcessed(j)
    \/ \E j \in JobIds : StoreError(j)
    \/ \E j \in JobIds : TailorOk(j)
    \/ \E j \in JobIds, c \in BOOLEAN : TailorFail(j, c)
    \/ NextWindow
    \/ Finish

\* the store the runs start from: two postings of one company with similar
\* titles, the others from a blacklisted company
InitRerun ==
    /\ Init
    /\ jobs = [j \in JobIds |->
                 NewJob(IF j = 1 THEN [company |-> "Acme",
                                       title |-> <<"machine", "learning", "engineer">>,
                                       jd_markdown |-> <<"remote", "python", "role">>]
                        ELSE IF j = 2 THEN [company |-> "Acme",
                                            title |-> <<"senior", "ml", "engineer">>,
                                            jd_markdown |-> <<"requires", "active", "security", "clearance">>]
                        ELSE [company |-> "Revature", title |-> <<"data", "analyst">>,
                              jd_markdown |-> <<"remote", "python", "role">>])]

SpecRerun == InitRerun /\ [][NextRerun]_vars

(* ------------------- MCP tools approve_job and skip_job ----------------- *)

\* call_tool("approve_job", {"job_id": job_id}) for a job that exists, while no
\* Scorer run is under way.  A status other than matched is only logged; the
\* status is set to approved (decision_type is not passed and becomes NULL).
\* The resume and the application that follow do not write the jobs table.
approve_job(job_id) ==
    /\ phase \in {"idle", "done"}
    /\ job_id \in DOMAIN jobs
    /\ jobs' = [jobs EXCEPT ![job_id] = update_job_status(@, "approved", "null")]
    /\ UNCHANGED << glm_total_cost, glm_calls, store_faults, scorerVars, filterVars,
                    clientVars, importVars >>

\* call_tool("skip_job", {"job_id": job_id}) for a job that exists
skip_job(job_id) ==
    /\ phase \in {"idle", "done"}
    /\ job_id \in DOMAIN jobs
    /\ jobs' = [jobs EXCEPT ![job_id] = update_job_status(@, "skipped", "null")]
    /\ UNCHANGED << glm_total_cost, glm_calls, store_faults, scorerVars, filterVars,
                    clientVars, importVars >>

NextDecision ==
    \/ Next
    \/ \E job_id \in JobIds : approve_job(job_id)
    \/ \E job_id \in JobIds : skip_job(job_id)

SpecDecision == Init /\ [][NextDecision]_vars

(* --------------- two writers of one job's score (two processes) --------- *)

\* the reasoning that the Scorer stores with a score
LlmReasoning == [kind |-> "llm", ref |-> 0, reason |-> NoReason]

\* _update_job_with_score applied to one row by one writer alone: its three
\* statements in program order
_update_job_with_score(row, score) ==
    mark_processed(
        update_job_status(
            update_job_filter_results(row, score, LlmReasoning, <<>>),
            ScoreStatus(score).status, ScoreStatus(score).decision_type))

\* the scores the writers write
WriterScores == { r.score : r \in Responses }

\* a process calls _update_job_with_score(job_id, score, reasoning)
WriterBegin(w, job_id, score) ==
    /\ writers[w].pc = "idle"
    /\ writers' = [writers EXCEPT ![w] =
                     [pc |-> "upd_results", job_id |-> job_id, score |-> score]]
    /\ UNCHANGED << storeVars, filterVars, clientVars, importVars, phase, args,
                    unprocessed_jobs, runs, i, pc, cur, resp, stats,
                    claude_total_cost, tailor_calls, outcome >>

\* first statement and commit of the writer: update_job_filter_results
WriterResults(w) ==
    /\ writers[w].pc = "upd_results"
    /\ jobs' = [jobs EXCEPT ![writers[w].job_id] =
                  update_job_filter_results(@, writers[w].score, LlmReasoning, <<>>)]
    /\ writers' = [writers EXCEPT ![w].pc = "upd_status"]
    /\ UNCHANGED << glm_total_cost, glm_calls, store_faults, filterVars, clientVars,
                    importVars, phase, args, unprocessed_jobs, runs, i, pc, cur,
                    resp, stats, claude_total_cost, tailor_calls, outcome >>

\* second statement and commit of the writer: update_job_status
WriterStatus(w) ==
    /\ writers[w].pc = "upd_status"
    /\ jobs' = [jobs EXCEPT ![writers[w].job_id] =
                  update_job_status(@, ScoreStatus(writers[w].score).status,
                                       ScoreStatus(writers[w].score).decision_type)]
    /\ writers' = [writers EXCEPT ![w].pc = "upd_processed"]
    /\ UNCHANGED << glm_total_cost, glm_calls, store_faults, filterVars, clientVars,
                    importVars, phase, args, unprocessed_jobs, runs, i, pc, cur,
                    resp, stats, claude_total_cost, tailor_calls, outcome >>

\* third statement and commit of the writer: is_processed = 1
WriterProcessed(w) ==
    /\ writers[w].pc = "upd_processed"
    /\ jobs' = [jobs EXCEPT ![writers[w].job_id] = mark_processed(@)]
    /\ writers' = [writers EXCEPT ![w].pc = "done"]
    /\ UNCHANGED << glm_total_cost, glm_calls, store_faults, filterVars, clientVars,
                    importVars, phase, args, unprocessed_jobs, runs, i, pc, cur,
                    resp, stats, claude_total_cost, tailor_calls, outcome >>

NextWriters ==
    \/ \E w \in Writers, job_id \in JobIds, score \in WriterScores :
          WriterBegin(w, job_id, score)
    \/ \E w \in Writers : WriterResults(w)
    \/ \E w \in Writers : WriterStatus(w)
    \/ \E w \in Writers : WriterProcessed(w)

SpecWriters == Init /\ [][NextWriters]_vars

(* ------------- a run on a store that an earlier run left torn ----------- *)

\* the row an earlier run leaves when, in _update_job_with_score, the first
\* two statements were committed and the third (is_processed = 1) raised
TornJob(p, score) ==
    update_job_status(
        update_job_filter_results(NewJob(p), score, LlmReasoning, <<>>),
        ScoreStatus(score).status, ScoreStatus(score).decision_type)

\* a new GLMProcessor (one is created per tool call) on such a store: job 1
\* was scored 60 by the earlier run and is still unprocessed, the other jobs
\* are new
InitTorn ==
    /\ InitProcess
    /\ jobs = [j \in JobIds |->
                 IF j = 1
                 THEN TornJob([company |-> "Acme",
                               title |-> <<"machine", "learning", "engineer">>,
                               jd_markdown |-> <<"remote", "python", "role">>], 60)
                 ELSE NewJob([company |-> "Acme",
                              title |-> <<"senior", "ml", "engineer">>,
                              jd_markdown |-> <<"remote", "python", "role">>])]

SpecTorn == InitTorn /\ [][NextDecision]_vars

(* -------------------- JobFilterService.filter_new_jobs ------------------ *)

\* Database.get_jobs_by_status("new", limit), newest first
get_jobs_by_status(store, status, limit) ==
    LET all == DescendingIds({ j \in DOMAIN store : store[j].status = status })
    IN IF limit < Len(all) THEN SubSeq(all, 1, limit) ELSE all

\* the job the loop of filter_new_jobs is at
FJob == frun.jobs[frun.k]

\* the loop moves to the next job
FAdvance(run) == [run EXCEPT !.k = @ + 1, !.pc = "next", !.score = NoScore]

\* entry of filter_new_jobs: the query and stats.total
FStart(limit) ==
    /\ phase = "idle"
    /\ frun.phase = "idle"
    /\ LET sel == get_jobs_by_status(jobs, "new", limit)
       IN /\ frun' = [phase |-> IF Len(sel) = 0 THEN "done" ELSE "running",
                      jobs |-> sel, k |-> 1, pc |-> "next", score |-> NoScore]
          /\ fstats' = [FilterStats EXCEPT !.total = Len(sel)]
    /\ UNCHANGED << storeVars, scorerVars, clientVars, importVars >>

\* _filter_single_job: the pre-filter check; a rejected job goes to the
\* reject path, any other job to glm.filter_job
FCheck ==
    /\ frun.phase = "running"
    /\ frun.pc = "next"
    /\ frun.k <= Len(frun.jobs)
    /\ IF should_reject(jobs[FJob]) # NoReason
       THEN /\ frun' = [frun EXCEPT !.pc = "pre_status"]
            /\ UNCHANGED glm_calls
       ELSE /\ frun' = [frun EXCEPT !.pc = "wait_glm"]
            /\ glm_calls' = glm_calls \cup {FJob}
    /\ UNCHANGED << jobs, glm_total_cost, store_faults, scorerVars, clientVars, importVars, fstats >>

\* reject path, first commit: update_job_status(job.id, "rejected")
FPreStatus ==
    /\ frun.phase = "running"
    /\ frun.pc = "pre_status"
    /\ jobs' = [jobs EXCEPT ![FJob] = update_job_status(@, "rejected", "null")]
    /\ frun' = [frun EXCEPT !.pc = "pre_results"]
    /\ UNCHANGED << glm_total_cost, glm_calls, store_faults, scorerVars, clientVars, importVars, fstats >>

\* reject path, second commit: update_job_filter_results(score=0.0, ...), counters
FPreResults ==
    /\ frun.phase = "running"
    /\ frun.pc = "pre_results"
    /\ jobs' = [jobs EXCEPT ![FJob] =
                  update_job_filter_results(@, 0,
                      [kind |-> "Pre-filter: ", ref |-> 0,
                       reason |-> should_reject(jobs[FJob])],
                      << should_reject(jobs[FJob]) >>)]
    /\ fstats' = [fstats EXCEPT !.pre_filtered = @ + 1, !.rejected = @ + 1]
    /\ frun' = FAdvance(frun)
    /\ UNCHANGED << glm_total_cost, glm_calls, store_faults, scorerVars, clientVars, importVars >>

\* glm.filter_job returned a FilterResult; _update_job_with_result counts it
FGlmOk(score) ==
    /\ frun.phase = "running"
    /\ frun.pc = "wait_glm"
    /\ glm_total_cost' = glm_total_cost + CallCost
    /\ fstats' = IF score >= Tier1Min THEN [fstats EXCEPT !.high_match = @ + 1]
                 ELSE IF score >= Tier2Min THEN [fstats EXCEPT !.medium_match = @ + 1]
                 ELSE [fstats EXCEPT !.rejected = @ + 1]
    /\ frun' = [frun EXCEPT !.pc = "res_results", !.score = score]
    /\ UNCHANGED << jobs, glm_calls, store_faults, scorerVars, clientVars, importVars >>

\* glm.filter_job raised (APIError, or InvalidResponseError after a paid call)
FGlmError(charged) ==
    /\ frun.phase = "running"
    /\ frun.pc = "wait_glm"
    /\ glm_total_cost' = glm_total_cost + (IF charged THEN CallCost ELSE 0)
    /\ fstats' = [fstats EXCEPT !.errors = @ + 1]
    /\ frun' = FAdvance(frun)
    /\ UNCHANGED << jobs, glm_calls, store_faults, scorerVars, clientVars, importVars >>

\* _update_job_with_result, first commit: update_job_filter_results
FResResults ==
    /\ frun.phase = "running"
    /\ frun.pc = "res_results"
    /\ jobs' = [jobs EXCEPT ![FJob] =
                  update_job_filter_results(@, frun.score,
                      [kind |-> "llm", ref |-> 0, reason |-> NoReason], <<>>)]
    /\ frun' = [frun EXCEPT !.pc = "res_status"]
    /\ UNCHANGED << glm_total_cost, glm_calls, store_faults, scorerVars, clientVars, importVars, fstats >>

\* _update_job_with_result, second commit: update_job_status
FResStatus ==
    /\ frun.phase = "running"
    /\ frun.pc = "res_status"
    /\ jobs' = [jobs EXCEPT ![FJob] =
                  update_job_status(@, ScoreStatus(frun.score).status,
                                       ScoreStatus(frun.score).decision_type)]
    /\ frun' = FAdvance(frun)
    /\ UNCHANGED << glm_total_cost, glm_calls, store_faults, scorerVars, clientVars, importVars, fstats >>

\* a store statement raises: the except clause of the loop counts the error
FStoreError ==
    /\ frun.phase = "running"
    /\ frun.pc \in {"pre_status", "pre_results", "res_results", "res_status"}
    /\ store_faults < MaxStoreFaults
    /\ store_faults' = store_faults + 1
    /\ fstats' = [fstats EXCEPT !.errors = @ + 1]
    /\ frun' = FAdvance(frun)
    /\ UNCHANGED << jobs, glm_total_cost, glm_calls, scorerVars, clientVars, importVars >>

\* the loop is over: cost_usd is set and the stats are returned
FFinish ==
    /\ frun.phase = "running"
    /\ frun.pc = "next"
    /\ frun.k > Len(frun.jobs)
    /\ fstats' = [fstats EXCEPT !.cost_usd = glm_total_cost]
    /\ frun' = [frun EXCEPT !.phase = "done"]
    /\ UNCHANGED << storeVars, scorerVars, clientVars, importVars >>

NextFilter ==
    \/ \E l \in 1..MaxJobs : FStart(l)
    \/ FCheck
    \/ FPreStatus
    \/ FPreResults
    \/ \E s \in FilterScores : FGlmOk(s)
    \/ \E c \in BOOLEAN : FGlmError(c)
    \/ FResResults
    \/ FResStatus
    \/ FStoreError
    \/ FFinish

SpecFilter == Init /\ [][NextFilter]_vars

(* ----------------------------- GLMClient.chat --------------------------- *)

\* stop_after_attempt(3)
MaxAttempts == 3

\* how one client.post attempt can end: a 200 answer, a 429 answer, another
\* error status, a transport timeout, a connection failure, a body that is
\* not JSON
PostOutcomes == {"200", "429", "status_error", "timeout", "connect_error", "bad_json"}

\* the exception that leaves the body of chat for a failed attempt: 429 is
\* raised as RateLimitError; raise_for_status gives HTTPStatusError, and
\* every httpx.RequestError (TimeoutException is one) is caught by the
\* except clauses and raised again as APIError; response.json() raises
\* ValueError, which no clause catches
ChatException(o) ==
    CASE o = "429" -> "RateLimitError"
      [] o = "status_error" -> "APIError"
      [] o = "timeout" -> "APIError"
      [] o = "connect_error" -> "APIError"
      [] o = "bad_json" -> "ValueError"

\* retry_if_exception_type((RateLimitError, httpx.TimeoutException))
RetryPredicate(exc) == exc \in {"RateLimitError", "httpx.TimeoutException"}

\* a caller invokes chat: the first attempt begins
ChatCall ==
    /\ chat.pc \in {"idle", "returned", "raised"}
    /\ chat.calls < MaxChatCalls
    /\ chat' = [pc |-> "post", calls |-> chat.calls + 1, attempt_number |-> 1,
                raised |-> "none"]
    /\ chat_log' = <<>>
    /\ UNCHANGED << storeVars, scorerVars, filterVars, importVars >>

\* client.post answered 200 with a JSON body: the cost is added to
\* total_cost and the LLMResponse is returned
PostOk ==
    /\ chat.pc = "post"
    /\ chat_log' = Append(chat_log, "200")
    /\ glm_total_cost' = glm_total_cost + CallCost
    /\ chat' = [chat EXCEPT !.pc = "returned"]
    /\ UNCHANGED << jobs, glm_calls, store_faults, scorerVars, filterVars, importVars >>

\* the attempt failed: the retry decorator either schedules another attempt
\* or lets an exception reach the caller (RetryError once the attempts are
\* used up, the exception itself when the retry predicate does not match)
PostFails(o) ==
    /\ chat.pc = "post"
    /\ o # "200"
    /\ chat_log' = Append(chat_log, o)
    /\ chat' =
          IF ~RetryPredicate(ChatException(o))
          THEN [chat EXCEPT !.pc = "raised", !.raised = ChatException(o)]
          ELSE IF chat.attempt_number >= MaxAttempts
          THEN [chat EXCEPT !.pc = "raised", !.raised = "RetryError"]
          ELSE [chat EXCEPT !.pc = "sleep"]
    /\ UNCHANGED << storeVars, scorerVars, filterVars, importVars >>

\* the backoff sleep is over: the next attempt begins
Retry ==
    /\ chat.pc = "sleep"
    /\ chat' = [chat EXCEPT !.pc = "post", !.attempt_number = @ + 1]
    /\ UNCHANGED << storeVars, scorerVars, filterVars, importVars, chat_log >>

NextChat ==
    \/ ChatCall
    \/ PostOk
    \/ \E o \in PostOutcomes : PostFails(o)
    \/ Retry

SpecChat == Init /\ [][NextChat]_vars

(* --------------------------- AntigravityImporter ------------------------ *)

\* _process_job, first two statements: the record is counted
Seen(st, source) ==
    [st EXCEPT !.total_jobs = @ + 1, !.by_source[source].total = @ + 1]

\* an outcome counter and its per-source counterpart grow by one
Count(st, source, key, skey) ==
    [st EXCEPT ![key] = @ + 1, !.by_source[source][skey] = @ + 1]

\* job_data of the record the loop is at
Data(rec) == _normalize_job_data(rec, imp.source)

\* import_json_file: the file is opened and its source detected
ImportFile(source) ==
    /\ imp.phase # "running"
    /\ ~tx.active
    /\ imp' = [NoImport EXCEPT !.phase = "running", !.source = source]
    /\ UNCHANGED << storeVars, scorerVars, filterVars, clientVars, replay, multi,
                    db_jobs, db_committed, imp_stats, store_call, tx >>

\* _process_job for a record without url: _normalize_job_data raises
\* ValueError, which nothing catches before it leaves import_json_file
ProcessInvalid(rec) ==
    /\ imp.phase = "running"
    /\ imp_stats.total_jobs < MaxRecords
    /\ rec.url = ""
    /\ imp_stats' = Seen(imp_stats, imp.source)
    /\ imp' = [phase |-> "failed", source |-> Null]
    /\ UNCHANGED << storeVars, scorerVars, filterVars, clientVars, replay, multi,
                    db_jobs, db_committed, store_call, tx >>

\* _process_job for a record whose url_hash is found in the table
ProcessUrlDuplicate(rec) ==
    /\ imp.phase = "running"
    /\ imp_stats.total_jobs < MaxRecords
    /\ rec.url # ""
    /\ _get_job_by_url_hash(db_jobs, Md5(rec.url)) # 0
    /\ imp_stats' = Count(Seen(imp_stats, imp.source), imp.source,
                          "url_duplicates", "url_dup")
    /\ UNCHANGED << storeVars, scorerVars, filterVars, clientVars, replay, multi,
                    db_jobs, db_committed, imp, store_call, tx >>

\* _process_job for a record whose fuzzy_hash is found: resolve_duplicate
\* decides between skip, full update and description update
ProcessFuzzyDuplicate(rec) ==
    /\ imp.phase = "running"
    /\ imp_stats.total_jobs < MaxRecords
    /\ rec.url # ""
    /\ _get_job_by_url_hash(db_jobs, Md5(rec.url)) = 0
    /\ _get_job_by_fuzzy_hash(db_jobs, Data(rec).fuzzy_hash) # 0
    /\ LET e == _get_job_by_fuzzy_hash(db_jobs, Data(rec).fuzzy_hash)
           res == resolve_duplicate(db_jobs[e], Data(rec))
           table == CASE res.action = "skip" -> db_jobs
                      [] res.action = "update_full" ->
                            [db_jobs EXCEPT ![e] = _update_job(@, Data(rec))]
                      [] res.action = "update_description" ->
                            [db_jobs EXCEPT ![e] = _update_job_description(@, res.jd_raw)]
       IN /\ db_jobs' = table
          /\ db_committed' = table
          /\ imp_stats' =
                IF res.action = "skip"
                THEN Count(Seen(imp_stats, imp.source), imp.source,
                           "fuzzy_duplicates_skipped", "fuzzy_dup_skip")
                ELSE Count(Seen(imp_stats, imp.source), imp.source,
                           "fuzzy_duplicates_updated", "fuzzy_dup_update")
    /\ UNCHANGED << storeVars, scorerVars, filterVars, clientVars, replay, multi, imp, store_call, tx >>

\* _process_job for a record without duplicate: insert_job; an exception of
\* the insert is logged and the loop goes on
ProcessInsert(rec) ==
    /\ imp.phase = "running"
    /\ imp_stats.total_jobs < MaxRecords
    /\ rec.url # ""
    /\ _get_job_by_url_hash(db_jobs, Md5(rec.url)) = 0
    /\ _get_job_by_fuzzy_hash(db_jobs, Data(rec).fuzzy_hash) = 0
    /\ IF IntegrityError(db_jobs, InsertedRow(Data(rec)))
       THEN /\ imp_stats' = Seen(imp_stats, imp.source)
            /\ UNCHANGED << db_jobs, db_committed >>
       ELSE /\ db_jobs' = Append(db_jobs, InsertedRow(Data(rec)))
            /\ db_committed' = db_jobs'
            /\ imp_stats' = Count(Seen(imp_stats, imp.source), imp.source,
                                  "new_jobs", "new")
    /\ UNCHANGED << storeVars, scorerVars, filterVars, clientVars, replay, multi, imp, store_call, tx >>

\* _process_job(job_raw, source) handles the record rec in this step
_process_job(rec) ==
    \/ ProcessInvalid(rec)
    \/ ProcessUrlDuplicate(rec)
    \/ ProcessFuzzyDuplicate(rec)
    \/ ProcessInsert(rec)

\* the loop over the records of the file ends: the stats are returned
EndOfFile ==
    /\ imp.phase = "running"
    /\ imp' = NoImport
    /\ UNCHANGED << storeVars, scorerVars, filterVars, clientVars, replay, multi,
                    db_jobs, db_committed, imp_stats, store_call, tx >>

(* ------------------------------ Database API --------------------------- *)

\* the platform of the job dicts that callers other than the importer insert
ScraperPlatform == "linkedin"

\* the jobs that these callers insert: scraped postings, which carry the
\* external id of the platform
ScrapedJobs == { rec \in RawRecords : rec.external_id # Null }

\* Database.check_duplicate(platform, external_id, url): is_duplicate
check_duplicate(table, job_data) ==
    \/ /\ job_data.external_id # Null
       /\ \E k \in 1..Len(table) :
             /\ table[k].platform = job_data.platform
             /\ table[k].external_id = job_data.external_id
    \/ /\ job_data.url # ""
       /\ \E k \in 1..Len(table) : table[k].url_hash = Md5(job_data.url)

\* a caller other than the importer invokes Database.insert_job(job_data):
\* the row is inserted and committed, or IntegrityError is raised
InsertJob(rec, source) ==
    /\ imp.phase # "running"
    /\ ~tx.active
    /\ store_call.calls < MaxStoreCalls
    /\ rec.url # ""
    /\ LET job_data == _normalize_job_data(rec, source)
       IN IF IntegrityError(db_jobs, InsertedRow(job_data))
          THEN /\ store_call' = [calls |-> store_call.calls + 1, result |-> "IntegrityError"]
               /\ UNCHANGED << db_jobs, db_committed >>
          ELSE /\ db_jobs' = Append(db_jobs, InsertedRow(job_data))
               /\ db_committed' = db_jobs'
               /\ store_call' = [calls |-> store_call.calls + 1, result |-> "id"]
    /\ UNCHANGED << storeVars, scorerVars, filterVars, clientVars, replay, multi, imp, imp_stats, tx >>

\* Database.insert_job_if_new(job_data): None for a duplicate, else the id
InsertJobIfNew(rec, source) ==
    /\ imp.phase # "running"
    /\ ~tx.active
    /\ store_call.calls < MaxStoreCalls
    /\ rec.url # ""
    /\ LET job_data == _normalize_job_data(rec, source)
       IN IF \/ check_duplicate(db_jobs, job_data)
             \/ IntegrityError(db_jobs, InsertedRow(job_data))
          THEN /\ store_call' = [calls |-> store_call.calls + 1, result |-> "None"]
               /\ UNCHANGED << db_jobs, db_committed >>
          ELSE /\ db_jobs' = Append(db_jobs, InsertedRow(job_data))
               /\ db_committed' = db_jobs'
               /\ store_call' = [calls |-> store_call.calls + 1, result |-> "id"]
    /\ UNCHANGED << storeVars, scorerVars, filterVars, clientVars, replay, multi, imp, imp_stats, tx >>

\* "with db.transaction():" is entered
TxBegin ==
    /\ imp.phase # "running"
    /\ ~tx.active
    /\ store_call.calls < MaxStoreCalls
    /\ tx' = [active |-> TRUE, begin |-> db_jobs]
    /\ store_call' = [store_call EXCEPT !.calls = @ + 1]
    /\ UNCHANGED << storeVars, scorerVars, filterVars, clientVars, replay, multi,
                    db_jobs, db_committed, imp, imp_stats >>

\* the body of the transaction calls insert_job, which ends in conn.commit()
\* (bodies with one insert are followed)
TxInsert(rec, source) ==
    /\ tx.active
    /\ db_jobs = tx.begin
    /\ rec.url # ""
    /\ ~IntegrityError(db_jobs, InsertedRow(_normalize_job_data(rec, source)))
    /\ db_jobs' = Append(db_jobs, InsertedRow(_normalize_job_data(rec, source)))
    /\ db_committed' = db_jobs'
    /\ UNCHANGED << storeVars, scorerVars, filterVars, clientVars, replay, multi,
                    imp, imp_stats, store_call, tx >>

\* the body raises: conn.rollback() discards what is not yet committed, and
\* the exception is raised again
TxRaise ==
    /\ tx.active
    /\ db_jobs' = db_committed
    /\ tx' = NoTx
    /\ UNCHANGED << storeVars, scorerVars, filterVars, clientVars, replay, multi,
                    db_committed, imp, imp_stats, store_call >>

\* the body ends: conn.commit()
TxCommit ==
    /\ tx.active
    /\ db_committed' = db_jobs
    /\ tx' = NoTx
    /\ UNCHANGED << storeVars, scorerVars, filterVars, clientVars, replay, multi,
                    db_jobs, imp, imp_stats, store_call >>

\* between two imports the Scorer scores a stored job:
\* _update_job_with_score (results, status, is_processed = 1)
ScoreStored(id, score) ==
    /\ imp.phase # "running"
    /\ ~tx.active
    /\ ~db_jobs[id].is_processed
    /\ Cardinality({ k \in 1..Len(db_jobs) : db_jobs[k].is_processed }) < MaxScored
    /\ db_jobs' = [db_jobs EXCEPT ![id] =
                     mark_processed(
                       update_job_status(
                         update_job_filter_results(@, score,
                             [kind |-> "llm", ref |-> 0, reason |-> NoReason], <<>>),
                         ScoreStatus(score).status, ScoreStatus(score).decision_type))]
    /\ db_committed' = db_jobs'
    /\ UNCHANGED << storeVars, scorerVars, filterVars, clientVars, replay, multi,
                    imp, imp_stats, store_call, tx >>

NextImport ==
    \/ \E src \in Sources : ImportFile(src)
    \/ \E rec \in RawRecords : ProcessInvalid(rec)
    \/ \E rec \in RawRecords : ProcessUrlDuplicate(rec)
    \/ \E rec \in RawRecords : ProcessFuzzyDuplicate(rec)
    \/ \E rec \in RawRecords : ProcessInsert(rec)
    \/ EndOfFile
    \/ \E rec \in ScrapedJobs : InsertJob(rec, ScraperPlatform)
    \/ \E rec \in ScrapedJobs : InsertJobIfNew(rec, ScraperPlatform)
    \/ TxBegin
    \/ \E rec \in ScrapedJobs : TxInsert(rec, ScraperPlatform)
    \/ TxRaise
    \/ TxCommit
    \/ \E id \in 1..Len(db_jobs) : ScoreStored(id, Tier1Min)

\* the importer starts on an empty jobs table; the table of the scoring run
\* plays no part and is fixed
InitImport ==
    /\ Init
    /\ jobs = [j \in JobIds |-> NewJob(CHOOSE p \in Postings : TRUE)]

SpecImport == InitImport /\ [][NextImport]_vars

(* --------------------- the same records imported twice ------------------ *)

\* the sequences of records, each with the source of its file, that are
\* imported
ReplaySeqs ==
    UNION { [1..n -> [rec : RawRecords, source : Sources]] : n \in 1..MaxRecords }

\* the element of the sequence that the pass is at
ReplayAt == replay.seq[imp_stats.total_jobs + 1]

\* a caller starts to import a sequence of records into the empty store
StartReplay ==
    /\ replay.pass = 0
    /\ imp = NoImport
    /\ imp_stats = ImportStats
    /\ db_jobs = <<>>
    /\ \E seq \in ReplaySeqs : replay' = [seq |-> seq, pass |-> 1]
    /\ UNCHANGED << storeVars, scorerVars, filterVars, clientVars, multi,
                    db_jobs, db_committed, imp, imp_stats, store_call, tx >>

\* import_json_file is called for the file that holds the next record
ReplayFile ==
    /\ replay.pass \in {1, 2}
    /\ imp_stats.total_jobs < Len(replay.seq)
    /\ ImportFile(ReplayAt.source)

\* the loop of import_json_file reaches the next record of the sequence
ReplayRecord ==
    /\ replay.pass \in {1, 2}
    /\ imp_stats.total_jobs < Len(replay.seq)
    /\ imp.source = ReplayAt.source
    /\ _process_job(ReplayAt.rec)

\* the sequence has been imported: a new AntigravityImporter on the same
\* store imports it again
SecondPass ==
    /\ replay.pass = 1
    /\ imp.phase # "running"
    /\ imp_stats.total_jobs = Len(replay.seq)
    /\ replay' = [replay EXCEPT !.pass = 2]
    /\ imp_stats' = ImportStats
    /\ imp' = NoImport
    /\ UNCHANGED << storeVars, scorerVars, filterVars, clientVars, multi,
                    db_jobs, db_committed, store_call, tx >>

NextReimport ==
    \/ StartReplay
    \/ ReplayFile
    \/ ReplayRecord
    \/ EndOfFile
    \/ SecondPass

SpecReimport == InitImport /\ [][NextReimport]_vars

(* ------------- two records with chosen company and title -------------- *)

\* company names and titles: different casing, blanks at the ends, and two
\* splits of the same letters
FuzzyCompanies == { <<"a", "b">>, <<"a", "b", "c">>, <<" ", "A", "b">>, <<"x">> }

FuzzyTitles == { <<"c", "d">>, <<"d">>, <<"C", "D", " ">>, <<"y">> }

\* a scraped record with this url, company and title
FuzzyRecord(url, company, title) ==
    [url |-> url, company |-> company, title |-> title,
     description |-> <<>>, location |-> Null, external_id |-> Null]

\* a caller imports two records with different urls into the empty store
StartFuzzy ==
    /\ replay.pass = 0
    /\ multi.phase = "idle"
    /\ imp = NoImport
    /\ imp_stats = ImportStats
    /\ db_jobs = <<>>
    /\ \E c1, c2 \in FuzzyCompanies, t1, t2 \in FuzzyTitles, s1, s2 \in Sources :
          replay' = [seq |-> << [rec |-> FuzzyRecord("u1", c1, t1), source |-> s1],
                                [rec |-> FuzzyRecord("u2", c2, t2), source |-> s2] >>,
                     pass |-> 1]
    /\ UNCHANGED << storeVars, scorerVars, filterVars, clientVars, multi,
                    db_jobs, db_committed, imp, imp_stats, store_call, tx >>

NextFuzzy ==
    \/ StartFuzzy
    \/ ReplayFile
    \/ ReplayRecord
    \/ EndOfFile

SpecFuzzy == InitImport /\ [][NextFuzzy]_vars

(* ----------------------- import_multiple_files ------------------------- *)

\* the number of files in one call
MaxFiles == 2

\* a file of the list: the source its name gives, and whether it exists and
\* holds JSON
FileLists ==
    UNION { [1..n -> [source : Sources, readable : BOOLEAN]] : n \in 1..MaxFiles }

\* the loop index after the file at index k has ended, normally or with an
\* exception, in a loop without the try statement: an exception ends the loop
next_index_uncaught(k, ended, file_paths) ==
    IF ended = "failed" THEN Len(file_paths) ELSE k

\* the loop index after the file at index k has ended, normally or with an
\* exception: the except clause logs the exception and the loop goes on
next_index(k, ended, file_paths) == k

\* import_multiple_files(file_paths) is called on a new importer
import_multiple_files(file_paths) ==
    /\ multi.phase = "idle"
    /\ imp = NoImport
    /\ imp_stats = ImportStats
    /\ replay.pass = 0
    /\ store_call.calls = 0
    /\ ~tx.active
    /\ multi' = [phase |-> "running", file_paths |-> file_paths, k |-> 0]
    /\ UNCHANGED << storeVars, scorerVars, filterVars, clientVars, replay,
                    db_jobs, db_committed, imp, imp_stats, store_call, tx >>

\* the loop takes the next file: import_json_file raises FileNotFoundError
\* or JSONDecodeError before any record is read, or starts on the records
MultiNextFile ==
    /\ multi.phase = "running"
    /\ imp.phase # "running"
    /\ LET k == next_index(multi.k, imp.phase, multi.file_paths)
       IN /\ k < Len(multi.file_paths)
          /\ multi' = [multi EXCEPT !.k = k + 1]
          /\ imp' = IF multi.file_paths[k + 1].readable
                    THEN [NoImport EXCEPT !.phase = "running",
                                          !.source = multi.file_paths[k + 1].source]
                    ELSE [phase |-> "failed", source |-> Null]
    /\ UNCHANGED << storeVars, scorerVars, filterVars, clientVars, replay,
                    db_jobs, db_committed, imp_stats, store_call, tx >>

\* a record of the current file is processed
MultiRecord(rec) ==
    /\ multi.phase = "running"
    /\ _process_job(rec)

\* the records of the current file are used up
MultiEndOfFile ==
    /\ multi.phase = "running"
    /\ EndOfFile

\* the loop is over: the stats are returned
MultiReturn ==
    /\ multi.phase = "running"
    /\ imp.phase # "running"
    /\ ~(next_index(multi.k, imp.phase, multi.file_paths) < Len(multi.file_paths))
    /\ multi' = [multi EXCEPT !.phase = "returned"]
    /\ UNCHANGED << storeVars, scorerVars, filterVars, clientVars, replay,
                    db_jobs, db_committed, imp, imp_stats, store_call, tx >>

NextMulti ==
    \/ \E file_paths \in FileLists : import_multiple_files(file_paths)
    \/ MultiNextFile
    \/ \E rec \in RawRecords : MultiRecord(rec)
    \/ MultiEndOfFile
    \/ MultiReturn

SpecMulti == InitImport /\ [][NextMulti]_vars

(* ------------------------------ properties ----------------------------- *)

TerminalStatus == {"rejected", "matched"}

\* C1: once process_unfiltered_jobs has returned on a store of freshly
\* imported jobs, every job has is_processed = true exactly when its status
\* is rejected or matched (stated here for runs without any store failure).
C1_ProcessedIffTerminal ==
    (phase = "done" /\ store_faults = 0) =>
        \A j \in JobIds : jobs[j].is_processed <=> jobs[j].status \in TerminalStatus

\* C2: after a run of the Scorer every matched job has decision_type auto
\* exactly when match_score >= 0.85 and manual exactly when
\* 0.60 <= match_score < 0.85.
C2_DecisionFollowsScore ==
    (phase = "done" /\ store_faults = 0) =>
        \A j \in JobIds :
            jobs[j].status = "matched" =>
                /\ jobs[j].decision_type = "auto" <=> jobs[j].match_score >= 85
                /\ jobs[j].decision_type = "manual" <=>
                       (60 <= jobs[j].match_score /\ jobs[j].match_score < 85)

\* C3: no committed state of the store shows a job with a score written
\* while status = new, or with status = rejected while is_processed = false.
C3_NoTornJob ==
    \A j \in JobIds :
        /\ ~(jobs[j].match_score # NoScore /\ jobs[j].status = "new")
        /\ ~(jobs[j].status = "rejected" /\ ~jobs[j].is_processed)

\* C4: a job that the pre-filter rejects ends the scoring run rejected, with
\* score 0.0, reasoning "Pre-filter: <reason>", red_flags = [reason] and
\* is_processed = true.
C4_PreFilterRejects ==
    (frun.phase = "done" /\ store_faults = 0) =>
        \A k \in 1..Len(frun.jobs) :
            LET row == jobs[frun.jobs[k]]
            IN should_reject(row) # NoReason =>
                  /\ row.status = "rejected"
                  /\ row.match_score = 0
                  /\ row.match_reasoning =
                        [kind |-> "Pre-filter: ", ref |-> 0, reason |-> should_reject(row)]
                  /\ row.red_flags = << should_reject(row) >>
                  /\ row.is_processed

\* C5: a scoring run makes no provider call for a job that
\* PreFilter.should_reject would reject.
C5_NoCallForPreFiltered ==
    \A j \in JobIds : should_reject(jobs[j]) # NoReason => j \notin glm_calls

\* C6: a job found to be a semantic duplicate ends the run rejected, with
\* score 0.0, reasoning "Semantic duplicate of job #...", is_processed = true
\* and without a provider call; the duplicate counter counts each such job once.
C6_DuplicateRejected ==
    (phase = "done" /\ store_faults = 0) =>
        /\ \A j \in JobIds :
              outcome[j] = "duplicate" =>
                 /\ jobs[j].status = "rejected"
                 /\ jobs[j].match_score = 0
                 /\ jobs[j].match_reasoning.kind = "Semantic duplicate of job #"
                 /\ jobs[j].is_processed
                 /\ j \notin glm_calls
        /\ stats.semantic_duplicates_found =
              Cardinality({ j \in JobIds : outcome[j] = "duplicate" })

\* the tier counter that the numeric score alone selects
CounterOfScore(score) ==
    IF score >= 85 THEN "tier1_high_match"
    ELSE IF score >= 60 THEN "tier2_medium_match"
    ELSE "tier3_low_match"

\* C7: the tier counter incremented for an LLM-scored job is the one that the
\* numeric score selects, whatever the tier field of the response says.
C7_CounterFollowsScore ==
    [][ \A j \in JobIds :
          (pc[j] = "upd_processed" /\ pc'[j] \in {"done", "wait_tailor"}
             /\ outcome'[j] # "error") =>
              stats'[CounterOfScore(resp[j].score)] = stats[CounterOfScore(resp[j].score)] + 1
      ]_vars

\* C8: the tailor adapter is invoked for a job only if its numeric score is
\* at least 85 and enable_tier1_resume is true.
C8_TailorOnlyTier1 ==
    \A j \in tailor_calls : jobs[j].match_score >= 85 /\ args.enable_tier1_resume

StatSum(st) == st.tier1_high_match + st.tier2_medium_match + st.tier3_low_match
                   + st.semantic_duplicates_found

C10_ErrorIsolation ==
    /\ phase = "done" =>
          /\ \A j \in Selected : pc[j] = "done" /\ outcome[j] # "none"
          /\ stats.errors = Cardinality({ j \in Selected : outcome[j] = "error" })
          /\ stats.total_processed =
                Cardinality({ j \in Selected : outcome[j] \in {"scored", "duplicate"} })
    /\ phase = "running" => ENABLED Next

\* a finished run with one window per job in which a job failed and a job of
\* a later window was still scored
C10_Witness ==
    /\ phase = "done"
    /\ args.batch_size = 1
    /\ \E j \in Selected, e \in Selected :
          /\ Position(j) < Position(e)
          /\ outcome[j] = "error"
          /\ outcome[e] = "scored"

\* rows that the next run of process_unfiltered_jobs would select
Unprocessed(store) ==
    LET sel == _get_unprocessed_jobs(store, 0)
    IN { sel[k] : k \in 1..Len(sel) }

\* C11: when the provider call of a job fails or its response cannot be
\* parsed, the job's row is left as it was before the attempt (status new,
\* is_processed false, no score), and the job is still selected by the
\* next run; without a store failure this is the state of every failed job
\* when the run returns.
C11_FailedAttemptLeavesRow ==
    /\ [][ \A j \in JobIds :
              (pc[j] = "wait_glm" /\ pc'[j] = "done") =>
                  /\ jobs'[j] = jobs[j]
                  /\ jobs'[j].status = "new"
                  /\ ~jobs'[j].is_processed
                  /\ jobs'[j].match_score = NoScore
                  /\ j \in Unprocessed(jobs')
        ]_vars
    /\ []( (phase = "done" /\ store_faults = 0) =>
              \A j \in Selected :
                  outcome[j] = "error" =>
                      /\ jobs[j].status = "new"
                      /\ ~jobs[j].is_processed
                      /\ jobs[j].match_score = NoScore
                      /\ j \in Unprocessed(jobs) )

\* a finished run in which the provider call of a job failed while another
\* job was scored
C11_Witness ==
    /\ phase = "done"
    /\ store_faults = 0
    /\ \E j \in glm_calls, e \in glm_calls :
          outcome[j] = "error" /\ outcome[e] = "scored"

\* tasks that have started and not yet finished
InFlight == { j \in Selected : pc[j] \notin {"ready", "done"} }

\* C12: the window boundary is a barrier: while the run is in window k every
\* task of an earlier window has finished, no task of a later window has
\* started, and at most batch_size tasks are in flight.
C12_WindowBarrier ==
    phase = "running" =>
        /\ \A j \in Selected :
              /\ Position(j) <= i => pc[j] = "done"
              /\ Position(j) > i + args.batch_size => pc[j] = "ready"
        /\ Cardinality(InFlight) <= args.batch_size

\* the second window is running: its task awaits the provider after the
\* first window has finished
C12_Witness ==
    /\ phase = "running"
    /\ i > 0
    /\ \E j \in Selected : Position(j) > i /\ pc[j] = "wait_glm"

\* attempts of the current chat call that ended in a rate-limit answer or in
\* a transport timeout
Retryable == {"429", "timeout"}

\* C13: a chat call makes at most 3 attempts; an attempt that ends in a
\* rate-limit answer or in a transport timeout is followed by another attempt
\* while fewer than 3 have been made, and an error reaches the caller only
\* after the last attempt has failed.
C13_BoundedRetry ==
    /\ Len(chat_log) <= MaxAttempts
    /\ chat.attempt_number <= MaxAttempts
    /\ \A k \in 1..Len(chat_log) :
          (chat_log[k] \in Retryable /\ k < MaxAttempts) =>
              ~(chat.pc = "raised" /\ k = Len(chat_log))
    /\ chat.pc = "raised" => chat_log[Len(chat_log)] # "200"

\* some stored job has the url_hash of this url
UrlHashStored(url) == \E k \in 1..Len(db_jobs) : db_jobs[k].url_hash = Md5(url)

\* the step reads one record of the file
RecordRead == imp.phase = "running" /\ imp_stats'.total_jobs = imp_stats.total_jobs + 1

\* the step is a direct call of the Database API
StoreCalled == store_call'.calls = store_call.calls + 1 /\ ~tx'.active

\* the stored job that the fuzzy lookup returns for this fuzzy_hash
FuzzyMatch(fuzzy_hash) == _get_job_by_fuzzy_hash(db_jobs, fuzzy_hash)

\* C14: for an imported record N whose url_hash is not stored and whose
\* fuzzy_hash is that of a stored job E: if priority(N) < priority(E), E's
\* descriptive fields, url, source and source_priority become N's; if the
\* priorities are equal and N's description is strictly longer, only E's
\* description changes; otherwise E is unchanged; in no case is a job inserted
\* or another job changed.
C14_FuzzyDuplicateResolution ==
    [][ \A rec \in RawRecords :
          (/\ RecordRead
           /\ rec.url # ""
           /\ ~UrlHashStored(rec.url)
           /\ FuzzyMatch(generate_fuzzy_hash(rec.company, rec.title)) # 0
           /\ _process_job(rec)) =>
              LET e == FuzzyMatch(generate_fuzzy_hash(rec.company, rec.title))
                  E == db_jobs[e]
                  pN == determine_source_priority(imp.source)
              IN /\ Len(db_jobs') = Len(db_jobs)
                 /\ \A k \in 1..Len(db_jobs) : k # e => db_jobs'[k] = db_jobs[k]
                 /\ IF pN < E.source_priority
                    THEN db_jobs'[e] =
                           [E EXCEPT !.title = rec.title, !.company = rec.company,
                                     !.location = rec.location,
                                     !.jd_markdown = rec.description,
                                     !.jd_raw = rec.description,
                                     !.url = rec.url, !.source = imp.source,
                                     !.source_priority = pN]
                    ELSE IF pN = E.source_priority /\ Len(rec.description) > Len(E.jd_raw)
                    THEN db_jobs'[e] = [E EXCEPT !.jd_markdown = rec.description,
                                                 !.jd_raw = rec.description]
                    ELSE db_jobs'[e] = E
      ]_vars

\* the scoring and workflow columns of a row
Workflow(row) ==
    << row.status, row.decision_type, row.match_score, row.match_reasoning,
       row.is_processed, row.filtered_at, row.decided_at, row.applied_at >>

\* C15: an update caused by a fuzzy duplicate leaves id, status,
\* decision_type, match_score, match_reasoning, is_processed, filtered_at,
\* decided_at and applied_at of every stored job unchanged (the id of a row is
\* its position in the table). The description-only update is applied to
\* every stored row with the description of every record, the full update is
\* followed through the import.
C15_UpdateKeepsWorkflow ==
    /\ [](\A k \in 1..Len(db_jobs) : \A rec \in RawRecords :
            Workflow(_update_job_description(db_jobs[k], rec.description))
                = Workflow(db_jobs[k]))
    /\ [][ \A rec \in RawRecords :
              (RecordRead /\ ProcessFuzzyDuplicate(rec)) =>
                  /\ Len(db_jobs') = Len(db_jobs)
                  /\ \A k \in 1..Len(db_jobs) :
                        Workflow(db_jobs'[k]) = Workflow(db_jobs[k])
          ]_vars

\* a job that the Scorer has processed carries the content of a record of a
\* more trusted source: it was fully updated by a fuzzy duplicate
C15_Witness ==
    /\ imp_stats.fuzzy_duplicates_updated > 0
    /\ \E k \in 1..Len(db_jobs) :
          /\ db_jobs[k].is_processed
          /\ db_jobs[k].status = "matched"
          /\ db_jobs[k].platform = "linkedin"
          /\ db_jobs[k].source = "indeed"

\* C16: importing a record whose url_hash is that of a stored job inserts
\* nothing and updates nothing, whatever its source priority, fuzzy hash or
\* description, and url_duplicates grows by one.
C16_UrlDuplicateSkipped ==
    [][ \A rec \in RawRecords :
          (RecordRead /\ rec.url # "" /\ UrlHashStored(rec.url) /\ _process_job(rec)) =>
              /\ db_jobs' = db_jobs
              /\ imp_stats'.url_duplicates = imp_stats.url_duplicates + 1
      ]_vars

\* a record of the more trusted source was skipped as a URL duplicate while
\* every stored job comes from the less trusted one
C16_Witness ==
    /\ imp_stats.by_source["indeed"].url_dup > 0
    /\ Len(db_jobs) > 0
    /\ \A k \in 1..Len(db_jobs) : db_jobs[k].source_priority = 2

\* the job_data collides with a stored job on url_hash or on
\* (platform, external_id)
Collides(rec, platform) ==
    \E k \in 1..Len(db_jobs) :
        \/ db_jobs[k].url_hash = Md5(rec.url)
        \/ /\ rec.external_id # Null
           /\ db_jobs[k].platform = platform
           /\ db_jobs[k].external_id = rec.external_id

\* C17: no two stored jobs have the same url_hash, and no two the same
\* (platform, external_id) with external_id present; an insert_job that would
\* collide raises and insert_job_if_new returns None without raising, each
\* leaving the table unchanged.
C17_UniqueKeys ==
    /\ [](\A k \in 1..Len(db_jobs), m \in 1..Len(db_jobs) :
              k # m =>
                 /\ db_jobs[k].url_hash # db_jobs[m].url_hash
                 /\ db_jobs[k].external_id # Null =>
                        ~(/\ db_jobs[k].platform = db_jobs[m].platform
                          /\ db_jobs[k].external_id = db_jobs[m].external_id))
    /\ [][ \A rec \in ScrapedJobs :
              (StoreCalled /\ Collides(rec, ScraperPlatform)) =>
                  /\ InsertJob(rec, ScraperPlatform) =>
                         (store_call'.result = "IntegrityError" /\ db_jobs' = db_jobs)
                  /\ InsertJobIfNew(rec, ScraperPlatform) =>
                         (store_call'.result = "None" /\ db_jobs' = db_jobs)
        ]_vars

\* an insert_job was refused on a table that holds several jobs
C17_Witness ==
    /\ store_call.result = "IntegrityError"
    /\ Len(db_jobs) >= 2

\* C18: for every stored job, at every moment, url_hash is the digest of the
\* job's current url.
C18_UrlHashOfUrl ==
    \A k \in 1..Len(db_jobs) : db_jobs[k].url_hash = Md5(db_jobs[k].url)

\* C19: a record without url is skipped: no row is inserted or changed for
\* it, and the loop over the file goes on to the records that follow.
C19_InvalidRecordSkipped ==
    [][ \A rec \in RawRecords :
          (RecordRead /\ rec.url = "" /\ _process_job(rec)) =>
              (db_jobs' = db_jobs /\ imp'.phase = "running")
      ]_vars

\* C20: when the body of Database.transaction() raises after it has written
\* to the table, the table is back in the state it had when the transaction
\* began.
C20_RollbackRestores ==
    [][ TxRaise => (db_jobs' = tx.begin /\ db_committed' = tx.begin) ]_vars

\* the edges of the status DAG
StatusEdges ==
    { <<"new", "filtered">>, <<"new", "rejected">>,
      <<"filtered", "matched">>, <<"filtered", "rejected">>,
      <<"matched", "approved">>, <<"matched", "skipped">>,
      <<"approved", "applied">>, <<"approved", "failed">> }

\* C21: every status change that the Scorer makes to a job follows an edge
\* of the status DAG; in particular no job leaves status rejected.
C21_StatusFollowsDag ==
    [][ \A j \in JobIds :
          jobs'[j].status # jobs[j].status =>
              << jobs[j].status, jobs'[j].status >> \in StatusEdges ]_vars

\* a call of process_unfiltered_jobs starts in this step
RunStarts == runs' = runs + 1

\* C22: a job whose is_processed is true when a Scorer run starts is not
\* selected by that run, no provider call is made for it during the run and
\* its row stays as it is.
C22_ProcessedNotSelected ==
    [][ \A j \in JobIds :
          /\ (RunStarts /\ jobs[j].is_processed) => pc'[j] = "none"
          /\ ((RunStarts /\ jobs[j].is_processed) \/ (~RunStarts /\ pc[j] = "none")) =>
                /\ pc'[j] = "none"
                /\ jobs'[j] = jobs[j]
                /\ j \notin glm_calls'
                /\ j \notin tailor_calls' ]_vars

\* a second run has returned: it left alone a job that was processed before
\* it started and scored another one
C22_Witness ==
    /\ runs = 2
    /\ phase = "done"
    /\ \E j, k \in JobIds :
          /\ pc[j] = "none"
          /\ jobs[j].is_processed
          /\ outcome[k] = "scored"

\* C23: when a Scorer run has returned, Stats.cost_usd equals the total cost
\* accumulated on the filter client plus the tailor client, for every run and
\* whatever number of jobs the run selected.
C23_CostAgrees ==
    (phase = "done" /\ runs > 0) =>
        stats.cost_usd = glm_total_cost + claude_total_cost

\* C24: when a Scorer run is cancelled, no further window is launched and
\* the tasks in flight run to completion or failure instead of being aborted:
\* no task ends aborted, and every job whose task had begun is counted as
\* processed or as an error.
C24_CancelLetsTasksFinish ==
    /\ [][phase = "cancelled" => i' = i]_vars
    /\ [](\A j \in JobIds : pc[j] # "aborted")

\* job j is stored as the semantic duplicate of job k
DuplicateOf(j, k) ==
    /\ jobs[j].match_reasoning.kind = "Semantic duplicate of job #"
    /\ jobs[j].match_reasoning.ref = k

\* j and k are postings of one company with similar titles
SameGroup(j, k) ==
    /\ jobs[j].company = jobs[k].company
    /\ _are_titles_similar(_normalize_title(jobs[j].title), _normalize_title(jobs[k].title))

\* C25: with semantic dedup enabled two jobs are never each marked as the
\* duplicate of the other, and when a run that selected every job has
\* returned, each group of same-company jobs with similar titles has a job
\* that was sent to the provider.
C25_NoMutualDuplicates ==
    /\ \A j, k \in JobIds : ~(j # k /\ DuplicateOf(j, k) /\ DuplicateOf(k, j))
    /\ (phase = "done" /\ args.enable_semantic_dedup /\ Selected = JobIds) =>
          \A j \in JobIds : \E k \in JobIds : SameGroup(j, k) /\ k \in glm_calls

\* C26: after any sequence of imports that starts from an empty store, no
\* two stored jobs have the same url.
C26_UniqueUrl ==
    store_call.calls = 0 =>
        \A j, k \in 1..Len(db_jobs) : db_jobs[j].url = db_jobs[k].url => j = k

\* C27: approve_job and skip_job change the status of a job only when its
\* status is matched; called for a job in another status they leave the
\* status as it is.
C27_DecisionOnlyFromMatched ==
    [][ \A job_id \in JobIds :
          ((approve_job(job_id) \/ skip_job(job_id)) /\ jobs[job_id].status # "matched") =>
              jobs'[job_id].status = jobs[job_id].status ]_vars

C29_ImportIdempotent ==
    [][replay.pass = 2 => db_jobs' = db_jobs]_vars

\* the second pass over a sequence of several records is complete; in the
\* first pass a job was inserted and then updated from a more trusted source
C29_Witness ==
    /\ replay.pass = 2
    /\ Len(replay.seq) > 1
    /\ imp_stats.total_jobs = Len(replay.seq)
    /\ \E k \in 1..Len(db_jobs) :
          db_jobs[k].platform = "linkedin" /\ db_jobs[k].source = "indeed"

\* the fields of a row that the claim on the score-write compares
ScoreFields(row) ==
    << row.status, row.decision_type, row.match_score, row.is_processed >>

\* C30: when two writers have applied the score-write to the same job with
\* the same score, in any interleaving of their statements, the job's status,
\* decision_type, match_score and is_processed are those that one writer
\* alone leaves.
C30_ScoreWriteIdempotent ==
    \A w1, w2 \in Writers :
        ( /\ w1 # w2
          /\ writers[w1].pc = "done" /\ writers[w2].pc = "done"
          /\ writers[w1].job_id = writers[w2].job_id
          /\ writers[w1].score = writers[w2].score )
        => \A p \in Postings :
              ScoreFields(jobs[writers[w1].job_id]) =
                 ScoreFields(_update_job_with_score(NewJob(p), writers[w1].score))

\* both writers have finished the score-write of the same job with the same
\* Tier 2 score
C30_Witness ==
    /\ writers[1].pc = "done" /\ writers[2].pc = "done"
    /\ writers[1].job_id = writers[2].job_id
    /\ writers[1].score = writers[2].score
    /\ jobs[writers[1].job_id].decision_type = "manual"

\* the outcomes of an attempt that leave chat as APIError, and the outcome in
\* which the answer is not parseable JSON
ApiErrorOutcomes == { o \in PostOutcomes \ {"200"} : ChatException(o) = "APIError" }

\* C31: a Chat attempt that fails with APIError is followed by another
\* attempt while attempts are left, so an APIError reaches the caller only
\* after the third attempt; an attempt whose answer is not parseable JSON is
\* never followed by another attempt.
C31_RetryTable ==
    /\ ( /\ chat.pc = "raised"
         /\ chat_log[Len(chat_log)] \in ApiErrorOutcomes )
       => Len(chat_log) = MaxAttempts
    /\ \A k \in 1..Len(chat_log) :
          chat_log[k] = "bad_json" => k = Len(chat_log)

\* the statuses a caller may pass to update_job_status, and the decision types
TargetStatuses ==
    {"new", "filtered", "matched", "rejected", "approved", "skipped", "applied", "failed"}

DecisionTypes == {"auto", "manual", Null}

Timestamps == {"filtered_at", "decided_at", "applied_at"}

\* the timestamps that the mapping of the claim gives for a target status
StatusTimestamps(status) ==
    IF status = "filtered" THEN {"filtered_at"}
    ELSE IF status \in {"approved", "rejected", "skipped"} THEN {"decided_at"}
    ELSE IF status = "applied" THEN {"applied_at"}
    ELSE {}

\* C32: update_job_status sets exactly the timestamp that the target status
\* selects (filtered: filtered_at; approved, rejected, skipped: decided_at;
\* applied: applied_at; any other status: none), leaves the other timestamps
\* and the scoring columns unchanged, and stores the status and the
\* decision_type it was given. Applied to every stored row with every target
\* status and decision type.
C32_StatusTimestamp ==
    \A j \in JobIds, status \in TargetStatuses, decision_type \in DecisionTypes :
        LET row == jobs[j]
            new == update_job_status(row, status, decision_type)
        IN /\ new.status = status
           /\ new.decision_type = decision_type
           /\ \A t \in Timestamps :
                 new[t] = IF t \in StatusTimestamps(status) THEN TRUE ELSE row[t]
           /\ new.match_score = row.match_score
           /\ new.match_reasoning = row.match_reasoning
           /\ new.red_flags = row.red_flags
           /\ new.is_processed = row.is_processed

\* a writer has just called update_job_status with target status rejected:
\* decided_at is set, applied_at is not, the score is still stored
C32_Witness ==
    \E w \in Writers :
        /\ writers[w].pc = "upd_processed"
        /\ LET row == jobs[writers[w].job_id]
           IN /\ row.status = "rejected"
              /\ row.decided_at /\ ~row.applied_at
              /\ row.match_score = writers[w].score

\* C33: once a Scorer run has completed, and after every approve_job and
\* skip_job decision that follows, each job has a decision_type other than
\* NULL if and only if its status is matched.
C33_DecisionTypeIffMatched ==
    phase = "done" =>
        \A j \in JobIds : (jobs[j].decision_type # Null) <=> (jobs[j].status = "matched")

\* a completed run has left a matched job with a decision type and a
\* decision has been taken on another job
C33_Witness ==
    /\ phase = "done"
    /\ \E j, k \in JobIds :
          /\ jobs[j].status = "matched" /\ jobs[j].decision_type = "manual"
          /\ jobs[k].status \in {"approved", "skipped"} /\ jobs[k].is_processed

RECURSIVE SourceSum(_, _)
\* the sum of one per-source counter over a set of sources
SourceSum(key, S) ==
    IF S = {} THEN 0
    ELSE LET source == CHOOSE x \in S : TRUE
         IN imp_stats.by_source[source][key] + SourceSum(key, S \ {source})

\* C34: while and after files are imported, every record seen is counted in
\* exactly one outcome counter, total_jobs = new_jobs + url_duplicates +
\* fuzzy_duplicates_skipped + fuzzy_duplicates_updated, and each counter is
\* the sum of its per-source counterparts.
C34_CountersAddUp ==
    /\ imp_stats.total_jobs =
          imp_stats.new_jobs + imp_stats.url_duplicates
          + imp_stats.fuzzy_duplicates_skipped + imp_stats.fuzzy_duplicates_updated
    /\ imp_stats.total_jobs = SourceSum("total", Sources)
    /\ imp_stats.new_jobs = SourceSum("new", Sources)
    /\ imp_stats.url_duplicates = SourceSum("url_dup", Sources)
    /\ imp_stats.fuzzy_duplicates_skipped = SourceSum("fuzzy_dup_skip", Sources)
    /\ imp_stats.fuzzy_duplicates_updated = SourceSum("fuzzy_dup_update", Sources)

\* C35: the cost_usd of the Stats that a Scorer run returns is the sum of the
\* costs of the provider calls made during that run, also on a processor that
\* has served earlier runs: it is at most the cost of the calls the run
\* started, and when no task of the run ended in an error it is at least the
\* cost of the run's scoring calls (with no resume call it is exactly that).
C35_CostOfThisRun ==
    (phase = "done" /\ runs > 0) =>
        /\ stats.cost_usd <=
              CallCost * (Cardinality(glm_calls) + Cardinality(tailor_calls))
        /\ (\A j \in JobIds : outcome[j] # "error") =>
              stats.cost_usd >= CallCost * Cardinality(glm_calls)

\* the step ends the import of a file with an exception
FileFails == multi.phase = "running" /\ imp.phase # "failed" /\ imp'.phase = "failed"

\* C36: in import_multiple_files a file that fails (it is missing, it is not
\* JSON, or one of its records raises) leaves the stored jobs as they are,
\* committed, and the loop still takes every file of the list: the call
\* returns only after the last file, and no step removes a stored job.
C36_FileFailureAbsorbed ==
    /\ [][FileFails => (db_jobs' = db_jobs /\ db_committed' = db_jobs)]_vars
    /\ [][multi.phase = "running" => Len(db_jobs') >= Len(db_jobs)]_vars
    /\ [](multi.phase = "returned" => multi.k = Len(multi.file_paths))

\* the call has returned; its first file could not be read and a job of its
\* second file is stored
C36_Witness ==
    /\ multi.phase = "returned"
    /\ Len(multi.file_paths) = 2
    /\ ~multi.file_paths[1].readable
    /\ \E n \in 1..Len(db_jobs) : db_jobs[n].platform = multi.file_paths[2].source

\* C37: after any sequence of imports that starts from an empty store, no
\* two stored jobs have the same fuzzy_hash.
C37_UniqueFuzzyHash ==
    store_call.calls = 0 =>
        \A j, k \in 1..Len(db_jobs) :
            db_jobs[j].fuzzy_hash = db_jobs[k].fuzzy_hash => j = k

\* two jobs are stored and a record that was a fuzzy duplicate has updated
\* one of them
C37_Witness ==
    /\ store_call.calls = 0
    /\ Len(db_jobs) >= 2
    /\ imp_stats.fuzzy_duplicates_updated > 0

\* lower(trim(company)) followed by lower(trim(title))
NormalizedKey(rec) ==
    StrLower(StrStrip(rec.company)) \o StrLower(StrStrip(rec.title))

\* both records of the sequence have been processed
BothProcessed == replay.pass = 1 /\ Len(replay.seq) = 2 /\ imp_stats.total_jobs = 2

\* C38: two records have the same fuzzy_hash exactly when lower(trim(company))
\* followed by lower(trim(title)) is the same string for both, whether or
\* not company and title are split at the same place; and the Importer
\* treats the second of two such records as a fuzzy duplicate of the first:
\* it is not inserted.
C38_FuzzyHashOfConcatenation ==
    replay.pass = 1 =>
        /\ \A m, n \in 1..Len(replay.seq) :
              LET r1 == replay.seq[m].rec
                  r2 == replay.seq[n].rec
              IN (generate_fuzzy_hash(r1.company, r1.title) =
                  generate_fuzzy_hash(r2.company, r2.title))
                 <=> (NormalizedKey(r1) = NormalizedKey(r2))
        /\ BothProcessed =>
              IF NormalizedKey(replay.seq[1].rec) = NormalizedKey(replay.seq[2].rec)
              THEN /\ Len(db_jobs) = 1
                   /\ imp_stats.fuzzy_duplicates_skipped
                      + imp_stats.fuzzy_duplicates_updated = 1
              ELSE Len(db_jobs) = 2

\* the records ("ab", "cd") and ("abc", "d") have been imported and one job
\* is stored
C38_Witness ==
    /\ BothProcessed
    /\ StrLower(StrStrip(replay.seq[1].rec.company))
          # StrLower(StrStrip(replay.seq[2].rec.company))
    /\ NormalizedKey(replay.seq[1].rec) = NormalizedKey(replay.seq[2].rec)
    /\ Len(db_jobs) = 1
====
